---------------------------- MODULE Spec2Model ----------------------------
(* Realm discovery, selection and publication of the explorer kernel       *)
(* (kernel/packages/shared/dao/index.ts), as a state machine.              *)
(*                                                                         *)
(* Strings that the code takes apart (catalyst names, layer names, realm   *)
(* strings) are sequences of one-character strings.  Optional fields of    *)
(* the TypeScript types are fields that a record has or has not; an        *)
(* optional number that the code reads without a guard is <<>> (absent)    *)
(* or <<n>>.  Scores are kept in thousandths (ScoreScale).                 *)
EXTENDS Integers, Sequences, FiniteSets, TLC

VARIABLES
  fnInput,        \* the argument of the call of a pure function under study
  fnOutput,       \* what that call returned
  pickInput,      \* the argument of the pickCatalystRealm call under study
  pickOutcome,    \* what that call did: not called, a realm, or the error thrown
  pinCatalyst,    \* config PIN_CATALYST: <<>> or <<domain>>
  nodesEndpoint,  \* the argument of the fetchCatalystRealms call: <<>> or <<url>>
  pc,             \* where the discovery round (and its caller) stands
  nodes,          \* fetchCatalystRealms' local `nodes`
  health,         \* domain -> the settled health response of the round
  healthyNodes,   \* fetchCatalystRealms' local `healthyNodes`
  pings,          \* domain -> the settled PingResult of the round
  roundResult,    \* what fetchCatalystRealms gave its caller
  queried,        \* node source -> its answer, for the sources queried so far
  probes,         \* the probes (health, status) issued so far in the round
  wire,           \* probe -> what the network did with its request, once settled
  silent,         \* the requests (health or status, by node) that are never answered
  candidates,     \* store: dao.candidates
  realm,          \* store: dao.realm, <<>> until the first selection
  publishedFrom,  \* the candidates that the published realm corresponds to, among
                  \* those the operation that published it selected from
  crowded,        \* the call of changeToCrowdedRealm: where it stands or how it ended
  refreshes,      \* the calls of refreshCandidatesStatuses under study: for each its
                  \* domains, the pings settled so far and how it ended
  daoState,       \* store: what the selectors areCandidatesFetched, isRealmInitialized
                  \* and getCatalystRealmCommsStatus read
  observed,       \* observeRealmChange: its closure's currentRealm, once registered
  url,            \* the realm parameter of the page URL: <<>> or <<realm string>>
  waits,          \* the call of a waiting primitive under study: how its promise
                  \* stands, its subscription, the calls of unsubscribe, and whether
                  \* its subscriber ran at the last notification
  notified        \* <<>>, or when the last step was a store notification, the
                  \* invocations of the realm listener that it made

vars == <<fnInput, fnOutput, pickInput, pickOutcome, pinCatalyst, nodesEndpoint, pc, nodes,
          health, healthyNodes, pings, roundResult, queried, probes, wire, silent, candidates,
          realm,
          publishedFrom, crowded, refreshes, daoState, observed, url, waits, notified>>

fnVars == <<fnInput, fnOutput>>
observerVars == <<daoState, observed, url, waits, notified>>

pickVars == <<pickInput, pickOutcome>>
configVars == <<pinCatalyst>>
roundVars ==
  <<nodesEndpoint, pc, nodes, health, healthyNodes, pings, roundResult, queried, probes, wire>>
storeVars == <<candidates, realm, publishedFrom, crowded>>

-----------------------------------------------------------------------------
(* Bounds of the model.                                                    *)

\* The longest candidate list handed to pickCatalystRealm or to
\* getRealmFromString on their own.
MaxCandidates == 3
\* The capacity of a layer that declares maxUsers; layers hold 0..LayerCapacity users.
LayerCapacity == 2
\* Islands-based catalysts report 0..MaxIslandUsers users.
MaxIslandUsers == 1
\* The scorers on their own are given 0..MaxScoredUsers users.
MaxScoredUsers == 51

-----------------------------------------------------------------------------
(* Program constants.                                                      *)

v == 50
DefaultMaxUsers == 50
ElapsedThreshold == 1500
CloseDistance == 4
\* Fixed-point scale of scores and of the angles of layerScore: thousandths.
ScoreScale == 10 * 10 * 10

OK == "OK"
UNREACHABLE == "UNREACHABLE"
HEALTHY == "Healthy"
UNHEALTHY == "Unhealthy"

-----------------------------------------------------------------------------
(* Scorer.                                                                 *)

Abs(x) == IF x < 0 THEN -x ELSE x

\* Math.cos on thousandths of a radian, in thousandths: the Taylor series
\* 1 - x^2/2! + x^4/4! - ... up to x^16/16!, enough for |x| <= pi.
RECURSIVE CosTerms(_, _, _, _)
CosTerms(x2, term, k, acc) ==
  IF k > 8 THEN acc
  ELSE LET next == (0 - term * x2) \div (ScoreScale * (2 * k - 1) * (2 * k))
       IN  CosTerms(x2, next, k + 1, acc + next)

Cos(x) == CosTerms((x * x) \div ScoreScale, ScoreScale, 1, ScoreScale)

\* phase + period * usersCount, in thousandths of a radian:
\* pi * (usersCount / (0.67 * maxUsers) - 1 / 1.8)
\*   = pi * (900 * usersCount - 335 * maxUsers) / (603 * maxUsers).
Angle(usersCount, maxUsers) ==
  (31416 * (900 * usersCount - 335 * maxUsers)) \div (6030 * maxUsers)

\* layerScore, faulty: the cosine is taken off v.
layerScoreInverted(layer) ==
  LET usersCount == layer.usersCount
      maxUsers == IF layer.maxUsers = <<>> THEN DefaultMaxUsers ELSE layer.maxUsers[1]
  IN  IF usersCount = 0 THEN -v * ScoreScale
      ELSE IF usersCount >= maxUsers THEN -10 * v * ScoreScale
      ELSE v * ScoreScale - v * Cos(Angle(usersCount, maxUsers))

\* layerScore, faulty: the full test comes before the empty test.
layerScoreFullFirst(layer) ==
  LET usersCount == layer.usersCount
      maxUsers == IF layer.maxUsers = <<>> THEN DefaultMaxUsers ELSE layer.maxUsers[1]
  IN  IF usersCount >= maxUsers THEN -10 * v * ScoreScale
      ELSE IF usersCount = 0 THEN -v * ScoreScale
      ELSE v * ScoreScale + v * Cos(Angle(usersCount, maxUsers))

\* layerScore({usersCount, maxUsers = 50}); layer.maxUsers is <<>> when the
\* payload omits it.
layerScore(layer) ==
  LET usersCount == layer.usersCount
      maxUsers == IF layer.maxUsers = <<>> THEN DefaultMaxUsers ELSE layer.maxUsers[1]
  IN  IF usersCount = 0 THEN -v * ScoreScale
      ELSE IF usersCount >= maxUsers THEN -10 * v * ScoreScale
      ELSE v * ScoreScale + v * Cos(Angle(usersCount, maxUsers))

\* islandsScore, faulty: the empty catalyst scores as an empty layer does.
islandsScoreEmptyAsLayer(usersCount) ==
  IF usersCount = 0 THEN -v * ScoreScale
  ELSE (100 + usersCount) * ScoreScale

\* islandsScore, faulty: no case for the empty catalyst.
islandsScoreWithoutEmptyCase(usersCount) ==
  (100 + usersCount) * ScoreScale

islandsScore(usersCount) ==
  IF usersCount = 0 THEN (-v + 1) * ScoreScale
  ELSE (100 + usersCount) * ScoreScale

-----------------------------------------------------------------------------
(* Candidates and realms.                                                  *)

Domains == {"A", "B"}
\* result.name, result.version and result.env.catalystVersion of a domain's status payload.
\* A third catalyst, for the selection among three.
CascadeDomains == Domains \cup {"C"}
CatalystName ==
  [d \in CascadeDomains |-> IF d = "A" THEN <<"a">> ELSE IF d = "B" THEN <<"b">> ELSE <<"c">>]
LighthouseVersion == [d \in CascadeDomains |-> IF d = "A" THEN "1.0" ELSE "1.1"]
CatalystVersion == [d \in CascadeDomains |-> "2.0"]

LayerNames == {<<"r">>, <<"g">>}

\* buildLayerCandidate, faulty: the score is taken with the default maxUsers.
buildLayerCandidateDefaultCapacity(domain, status, elapsed, layer) ==
  [catalystName |-> CatalystName[domain], domain |-> domain, status |-> status,
   elapsed |-> elapsed, lighthouseVersion |-> LighthouseVersion[domain],
   catalystVersion |-> CatalystVersion[domain],
   layer |-> layer, type |-> "layer-based",
   score |-> layerScore([layer EXCEPT !.maxUsers = <<>>])]

\* buildBaseCandidate / buildLayerCandidate / buildIslandsCandidate
buildLayerCandidate(domain, status, elapsed, layer) ==
  [catalystName |-> CatalystName[domain], domain |-> domain, status |-> status,
   elapsed |-> elapsed, lighthouseVersion |-> LighthouseVersion[domain],
   catalystVersion |-> CatalystVersion[domain],
   layer |-> layer, type |-> "layer-based", score |-> layerScore(layer)]

buildIslandsCandidate(domain, status, elapsed, usersCount) ==
  [catalystName |-> CatalystName[domain], domain |-> domain, status |-> status,
   elapsed |-> elapsed, lighthouseVersion |-> LighthouseVersion[domain],
   catalystVersion |-> CatalystVersion[domain],
   usersCount |-> usersCount, type |-> "islands-based", score |-> islandsScore(usersCount)]

candidateUsers(candidate) ==
  IF candidate.type = "layer-based" THEN candidate.layer.usersCount ELSE candidate.usersCount

\* candidateToRealm, faulty: the layer field is set whatever the type
\* (undefined for an islands-based candidate).
candidateToRealmAlwaysLayer(candidate) ==
  [catalystName |-> candidate.catalystName, domain |-> candidate.domain,
   lighthouseVersion |-> candidate.lighthouseVersion,
   layer |-> IF candidate.type = "layer-based" THEN candidate.layer.name ELSE <<>>]

candidateToRealm(candidate) ==
  IF candidate.type = "layer-based"
  THEN [catalystName |-> candidate.catalystName, domain |-> candidate.domain,
        lighthouseVersion |-> candidate.lighthouseVersion, layer |-> candidate.layer.name]
  ELSE [catalystName |-> candidate.catalystName, domain |-> candidate.domain,
        lighthouseVersion |-> candidate.lighthouseVersion]

-----------------------------------------------------------------------------
(* Selector: pickCatalystRealm.                                            *)

RECURSIVE SumUsers(_, _, _)
SumUsers(cands, domain, i) ==
  IF i > Len(cands) THEN 0
  ELSE (IF cands[i].domain = domain THEN candidateUsers(cands[i]) ELSE 0)
       + SumUsers(cands, domain, i + 1)

\* usersByDomain, faulty: only the candidates that pass the filter are counted.
usersByDomainOfSelectable(cands) ==
  [d \in {cands[i].domain : i \in 1..Len(cands)} |->
     SumUsers(SelectSeq(cands, LAMBDA it :
                          /\ it.status = OK
                          /\ \/ it.type = "islands-based"
                             \/ /\ it.layer.maxUsers # <<>>
                                /\ it.layer.usersCount < it.layer.maxUsers[1]),
              d, 1)]

\* usersByDomain[domain]: the users of every candidate of the domain, summed.
usersByDomain(cands) ==
  [d \in {cands[i].domain : i \in 1..Len(cands)} |-> SumUsers(cands, d, 1)]

\* selectable, faulty: the capacity test left out.
selectableIgnoringCapacity(it) ==
  it.status = OK

\* The filter: OK, and islands-based or a layer with room. `usersCount <
\* undefined` is false, so a layer without maxUsers does not pass.
selectable(it) ==
  /\ it.status = OK
  /\ \/ it.type = "islands-based"
     \/ /\ it.layer.maxUsers # <<>>
        /\ it.layer.usersCount < it.layer.maxUsers[1]

\* compare, faulty: the score is looked at before the latency gap.
compareScoreFirst(c1, c2, users) ==
  LET elapsedDiff == c1.elapsed - c2.elapsed
      usersDiff == users[c1.domain] - users[c2.domain]
      scoreDiff == c2.score - c1.score
  IN  IF scoreDiff # 0 THEN scoreDiff
      ELSE IF Abs(elapsedDiff) > ElapsedThreshold THEN elapsedDiff
      ELSE IF usersDiff # 0 THEN usersDiff
      ELSE elapsedDiff

\* compare, faulty: a gap of exactly 1500 ms already counts as large.
compareThresholdInclusive(c1, c2, users) ==
  LET elapsedDiff == c1.elapsed - c2.elapsed
      usersDiff == users[c1.domain] - users[c2.domain]
      scoreDiff == c2.score - c1.score
  IN  IF Abs(elapsedDiff) >= ElapsedThreshold THEN elapsedDiff
      ELSE IF scoreDiff # 0 THEN scoreDiff
      ELSE IF usersDiff # 0 THEN usersDiff
      ELSE elapsedDiff

\* The comparator given to sort: negative when c1 goes first.
compare(c1, c2, users) ==
  LET elapsedDiff == c1.elapsed - c2.elapsed
      usersDiff == users[c1.domain] - users[c2.domain]
      scoreDiff == c2.score - c1.score
  IN  IF Abs(elapsedDiff) > ElapsedThreshold THEN elapsedDiff
      ELSE IF scoreDiff # 0 THEN scoreDiff
      ELSE IF usersDiff # 0 THEN usersDiff
      ELSE elapsedDiff

\* ECMAScript's "consistent comparator" over the elements being sorted.
Sign(x) == IF x < 0 THEN -1 ELSE IF x > 0 THEN 1 ELSE 0

ConsistentComparator(seq, users) ==
  LET I == 1..Len(seq)
      c(i, j) == Sign(compare(seq[i], seq[j], users))
  IN  /\ \A i \in I : c(i, i) = 0
      /\ \A i, j \in I : c(i, j) = -c(j, i)
      /\ \A i, j, k \in I : (c(i, j) = 0 /\ c(j, k) = 0) => c(i, k) = 0
      /\ \A i, j, k \in I : (c(i, j) < 0 /\ c(j, k) < 0) => c(i, k) < 0

\* The indices that Array.prototype.sort may leave in front.  With a
\* consistent comparator the (stable) sort is determined: the first of the
\* least elements.  Otherwise the order is implementation-defined and any
\* element may be in front.
sortedFirst(seq, users) ==
  LET I == 1..Len(seq)
      least == {i \in I : \A j \in I : compare(seq[j], seq[i], users) >= 0}
  IN  IF ConsistentComparator(seq, users)
      THEN {i \in least : \A j \in least : i <= j}
      ELSE I

NoRealmError == "No available realm found!"
\* candidateToRealm(undefined): reading catalystName of undefined.
UndefinedTypeError == "TypeError: Cannot read property 'catalystName' of undefined"

\* pickCatalystRealm, faulty: the throw left out.
pickCatalystRealmWithoutThrow(cands) ==
  LET users == usersByDomain(cands)
      sorted == SelectSeq(cands, selectable)
  IN  IF Len(sorted) = 0
      THEN {[kind |-> "error", error |-> UndefinedTypeError]}
      ELSE {[kind |-> "realm", realm |-> candidateToRealm(sorted[i]), from |-> sorted[i]]
              : i \in sortedFirst(sorted, users)}

\* Every outcome of pickCatalystRealm(candidates): the realm returned, with
\* the candidate it was built from, or the error thrown.
pickCatalystRealm(cands) ==
  LET users == usersByDomain(cands)
      sorted == SelectSeq(cands, selectable)
  IN  IF Len(sorted) = 0 /\ Len(cands) > 0
      THEN {[kind |-> "error", error |-> NoRealmError]}
      ELSE IF Len(sorted) = 0
      THEN {[kind |-> "error", error |-> UndefinedTypeError]}
      ELSE {[kind |-> "realm", realm |-> candidateToRealm(sorted[i]), from |-> sorted[i]]
              : i \in sortedFirst(sorted, users)}

-----------------------------------------------------------------------------
(* pickCatalystRealm on its own: the argument is drawn from the Candidate  *)
(* type (any status), one ping per domain as fetchCatalystStatuses makes   *)
(* them, and the function is applied once.                                 *)

Layers ==
  {[name |-> <<"r">>, usersCount |-> u, maxUsers |-> <<LayerCapacity>>] : u \in 0..LayerCapacity}
  \cup {[name |-> <<"g">>, usersCount |-> 1, maxUsers |-> <<>>]}

\* What a domain's candidates share: the status and elapsed time of its ping.
PickPings ==
  {p \in [Domains -> [status : {OK, UNREACHABLE}, elapsed : {100, 1600, 1700}]] :
     /\ p["A"] = [status |-> OK, elapsed |-> 100]
     /\ p["B"] \in {[status |-> OK, elapsed |-> 1600], [status |-> OK, elapsed |-> 1700],
                    [status |-> UNREACHABLE, elapsed |-> 1700]}}

PickCandidates(p) ==
  {buildLayerCandidate(d, p[d].status, p[d].elapsed, l) : d \in Domains, l \in Layers}
  \cup {buildIslandsCandidate(d, p[d].status, p[d].elapsed, u) : d \in Domains, u \in 0..MaxIslandUsers}

NotCalled == [kind |-> "not called"]
\* How a call ended: with a value or with an exception.
Returned(value) == [kind |-> "returned", value |-> value]
Thrown(error) == [kind |-> "thrown", error |-> error]
\* A map (by domain, by node source) with no entry yet.
EmptyMap == [k \in {} |-> k]

FnIdle ==
  /\ fnInput = <<>>
  /\ fnOutput = NotCalled

\* Before a round: nothing issued, nothing settled.
RoundUnstarted ==
  /\ nodesEndpoint = <<>>
  /\ pc = "idle"
  /\ nodes = <<>>
  /\ health = EmptyMap
  /\ healthyNodes = <<>>
  /\ pings = EmptyMap
  /\ roundResult = NotCalled
  /\ queried = EmptyMap
  /\ probes = {}
  /\ wire = EmptyMap

\* No round started, and every node answering its requests one way or another.
RoundIdle ==
  /\ silent = {}
  /\ RoundUnstarted

\* The calls of refreshCandidatesStatuses that are followed, named by the
\* order in which they are made.
RefreshOrder == <<"first", "second", "third">>
RefreshIds == {RefreshOrder[i] : i \in 1..Len(RefreshOrder)}
CalledBefore(id) == {RefreshOrder[i] : i \in {j \in 1..Len(RefreshOrder) : \E k \in (j+1)..Len(RefreshOrder) : RefreshOrder[k] = id}}
NoRefreshes == [id \in RefreshIds |-> NotCalled]

StoreEmpty ==
  /\ candidates = <<>>
  /\ realm = <<>>
  /\ publishedFrom = {}
  /\ crowded = NotCalled
  /\ refreshes = NoRefreshes

\* The store before any of the dao actions, no observer registered, no
\* waiting primitive called.
Unregistered == [registered |-> FALSE]
ObserverIdle ==
  /\ daoState = [fetched |-> FALSE, initialized |-> FALSE, commsStatus |-> "connecting"]
  /\ observed = Unregistered
  /\ url = <<>>
  /\ waits = NotCalled
  /\ notified = <<>>

PickInit ==
  /\ \E p \in PickPings : \E n \in 0..MaxCandidates :
       pickInput \in [1..n -> PickCandidates(p)]
  /\ pickOutcome = NotCalled
  /\ pinCatalyst = <<>>
  /\ FnIdle
  /\ RoundIdle
  /\ StoreEmpty
  /\ ObserverIdle

Pick ==
  /\ pickOutcome = NotCalled
  /\ pickOutcome' \in pickCatalystRealm(pickInput)
  /\ UNCHANGED <<silent, refreshes, observerVars, fnVars, pickInput, configVars, roundVars, storeVars>>

PickNext == Pick

SpecPick == PickInit /\ [][PickNext]_vars

\* pickCatalystRealm over three catalysts that all answered, each 1500 ms
\* after the one before: the candidates of a catalyst are an empty layer or
\* islands, and the first catalyst also has a full layer.
CascadeElapsed ==
  [d \in CascadeDomains |->
     IF d = "A" THEN 100
     ELSE IF d = "B" THEN 100 + ElapsedThreshold
     ELSE 100 + 2 * ElapsedThreshold]

CascadeCandidates ==
  {buildLayerCandidate(d, OK, CascadeElapsed[d],
                       [name |-> <<"r">>, usersCount |-> u, maxUsers |-> <<LayerCapacity>>])
     : d \in CascadeDomains, u \in {0}}
  \cup {buildLayerCandidate("A", OK, CascadeElapsed["A"],
           [name |-> <<"g">>, usersCount |-> LayerCapacity, maxUsers |-> <<LayerCapacity>>])}
  \cup {buildIslandsCandidate(d, OK, CascadeElapsed[d], u)
          : d \in CascadeDomains, u \in 0..MaxIslandUsers}

CascadeInit ==
  /\ \E n \in 0..MaxCandidates : pickInput \in [1..n -> CascadeCandidates]
  /\ pickOutcome = NotCalled
  /\ pinCatalyst = <<>>
  /\ FnIdle
  /\ RoundIdle
  /\ StoreEmpty
  /\ ObserverIdle

SpecCascade == CascadeInit /\ [][PickNext]_vars

-----------------------------------------------------------------------------
(* HealthProbe and CandidateBuilder.                                       *)

Has(r, field) == field \in DOMAIN r

\* isPeerHealthy, faulty: an empty map passes.
isPeerHealthyWhenEmpty(peerStatus) ==
  ~ \E server \in DOMAIN peerStatus : peerStatus[server] # HEALTHY

isPeerHealthy(peerStatus) ==
  /\ Cardinality(DOMAIN peerStatus) > 0
  /\ ~ \E server \in DOMAIN peerStatus : peerStatus[server] # HEALTHY

\* One step of the reduce of fetchCatalystStatuses: the candidates that the
\* node `domain` with PingResult `ping` adds to the union.
candidatesOfNode(domain, ping) ==
  IF Has(ping, "status") /\ ping.status = OK
  THEN IF Has(ping.result, "layers")
       THEN [i \in 1..Len(ping.result.layers) |->
               buildLayerCandidate(domain, ping.status, ping.elapsed, ping.result.layers[i])]
       ELSE <<buildIslandsCandidate(domain, ping.status, ping.elapsed, ping.result.usersCount)>>
  ELSE <<>>

\* buildBaseCandidate reads result.env.catalystVersion: a TypeError when the
\* payload has no env.  It runs once per declared layer, or once when the
\* payload declares no layers.
candidatesOfNodeThrows(domain, ping) ==
  /\ Has(ping, "status") /\ ping.status = OK
  /\ Has(ping.result, "layers") => Len(ping.result.layers) > 0
  /\ ~ Has(ping.result, "env")

fetchCatalystStatusesThrows(nodeSeq, results) ==
  \E i \in 1..Len(nodeSeq) : candidatesOfNodeThrows(nodeSeq[i], results[nodeSeq[i]])

EnvTypeError == "TypeError: Cannot read property 'catalystVersion' of undefined"

\* fetchCatalystStatuses(nodes) once every ping has settled with results[domain].
RECURSIVE fetchCatalystStatuses(_, _)
fetchCatalystStatuses(nodeSeq, results) ==
  IF nodeSeq = <<>> THEN <<>>
  ELSE candidatesOfNode(Head(nodeSeq), results[Head(nodeSeq)])
       \o fetchCatalystStatuses(Tail(nodeSeq), results)

-----------------------------------------------------------------------------
(* What the network may answer.                                            *)

Services == {"lambdas", "content"}
\* The JSON objects that GET {domain}/lambdas/health may carry.
HealthResponses == UNION {[S -> {HEALTHY, UNHEALTHY}] : S \in SUBSET Services}
\* The JSON value null.
Null == [null |-> "null"]

\* What becomes of the request of a health probe: aborted after
\* DEFAULT_TIMEOUT, failed in transport, answered with a body that is not
\* JSON, or answered with a JSON body (the response's status is not read).
HealthAnswers ==
  {[kind |-> "timeout"], [kind |-> "transport error"], [kind |-> "unparsable"]}
  \cup {[kind |-> "json", body |-> b] : b \in HealthResponses \cup {Null}}

\* fetchPeerHealthStatus, faulty: no catch around the fetch.
fetchPeerHealthStatusUncaught(answer) ==
  IF answer.kind = "json" THEN Returned(answer.body) ELSE Thrown(answer.kind)

\* fetchPeerHealthStatus(node), given what became of its request.
fetchPeerHealthStatus(answer) ==
  IF answer.kind = "json" THEN Returned(answer.body) ELSE Returned(EmptyMap)

\* Object.keys(null) in isPeerHealthy throws.
isPeerHealthyThrows(peerStatus) == peerStatus = Null
NullKeysTypeError == "TypeError: Cannot convert undefined or null to object"

\* Grid parcels of users, and where the player stands.
NearParcel == <<4, 0>>
FarParcel == <<5, 0>>
PlayerParcel == <<0, 0>>

\* The layers a status payload may declare, by name: 0..LayerCapacity users
\* (LayerCapacity is full), usersParcels holding one parcel per user, all
\* near the player or all far, or missing; and a roomy layer with a crowd
\* around the player.
Parcels(n, parcel) == [i \in 1..n |-> parcel]

CrowdSize == 3
CrowdLayer(name) ==
  [name |-> name, usersCount |-> CrowdSize, maxUsers |-> <<DefaultMaxUsers>>,
   usersParcels |-> Parcels(CrowdSize, NearParcel)]

\* A roomy layer with as many people around the player as the crowd has
\* around one of its own.
NearbyLayer(name) ==
  [name |-> name, usersCount |-> CrowdSize - 1, maxUsers |-> <<DefaultMaxUsers>>,
   usersParcels |-> Parcels(CrowdSize - 1, NearParcel)]

PayloadLayers(name) ==
  {[name |-> name, usersCount |-> u, maxUsers |-> <<LayerCapacity>>,
    usersParcels |-> Parcels(u, NearParcel)] : u \in 0..LayerCapacity}
  \cup {[name |-> name, usersCount |-> u, maxUsers |-> <<LayerCapacity>>,
          usersParcels |-> Parcels(u, FarParcel)] : u \in 1..(LayerCapacity - 1)}
  \cup {[name |-> name, usersCount |-> 1, maxUsers |-> <<LayerCapacity>>]}
  \cup {CrowdLayer(name), NearbyLayer(name)}

SecondLayer ==
  [name |-> <<"g">>, usersCount |-> 1, maxUsers |-> <<LayerCapacity>>,
   usersParcels |-> Parcels(1, NearParcel)]

\* The layers that come with a second one: one with room, one full.
FirstLayers ==
  {[name |-> <<"r">>, usersCount |-> u, maxUsers |-> <<LayerCapacity>>,
    usersParcels |-> Parcels(u, NearParcel)] : u \in {1, LayerCapacity}}

\* result.env of a status payload.
Env == [catalystVersion |-> "2.0"]

\* The parsed body of GET {domain}/comms/status?includeLayers=true, as the
\* PingResult type declares it.
Payloads ==
  {[usersCount |-> u, env |-> Env] : u \in 0..MaxIslandUsers}
  \cup {[layers |-> <<>>, env |-> Env]}
  \cup {[layers |-> <<l>>, env |-> Env] : l \in PayloadLayers(<<"r">>)}
  \cup {[layers |-> <<l, SecondLayer>>, env |-> Env] : l \in FirstLayers}

\* A JSON body that is not what the type declares: no env.
MalformedPayload == [usersCount |-> 0]

Elapsed == [d \in Domains |-> IF d = "A" THEN 100 ELSE 1700]

\* What becomes of the XMLHttpRequest of a ping: send throws, or the
\* request gets to DONE with a status (0 on a timeout or a network error)
\* and, for 200, a responseText that JSON.parse takes or not.
PingAnswers ==
  {[kind |-> "send throws"], [kind |-> "done", status |-> 0], [kind |-> "done", status |-> 503],
   [kind |-> "done", status |-> 200, body |-> [parses |-> FALSE]]}
  \cup {[kind |-> "done", status |-> 200, body |-> [parses |-> TRUE, value |-> r]]
          : r \in Payloads \cup {MalformedPayload}}

Resolved(value) == [kind |-> "resolved", value |-> value]
Rejected(error) == [kind |-> "rejected", error |-> error]

\* ping, faulty: the error of JSON.parse rejects the future.
pingRejecting(answer, elapsed) ==
  IF answer.kind = "send throws" THEN Resolved([status |-> UNREACHABLE])
  ELSE IF answer.status # 200 THEN Resolved([status |-> UNREACHABLE])
  ELSE IF answer.body.parses
  THEN Resolved([status |-> OK, elapsed |-> elapsed, result |-> answer.body.value])
  ELSE Rejected("SyntaxError")

\* ping(url): what the future settles with, given what became of the
\* request and the time from OPENED to DONE.
ping(answer, elapsed) ==
  IF answer.kind = "send throws" THEN Resolved([status |-> UNREACHABLE])
  ELSE IF answer.status # 200 THEN Resolved([status |-> UNREACHABLE])
  ELSE IF answer.body.parses
  THEN Resolved([status |-> OK, elapsed |-> elapsed, result |-> answer.body.value])
  ELSE Resolved(EmptyMap)

\* The PingResults that a ping of `domain` may resolve with.
PingResults(domain) == {ping(a, Elapsed[domain]).value : a \in PingAnswers}

\* PingResults by domain, evaluated once.
PingResultsOf == [d \in Domains |-> PingResults(d)]

\* Node lists: no domain twice.
NodeLists == {<<>>, <<"A">>, <<"B">>, <<"A", "B">>, <<"B", "A">>}

Range(seq) == {seq[i] : i \in 1..Len(seq)}

-----------------------------------------------------------------------------
(* The program: one discovery round (fetchCatalystRealms), the initial     *)
(* selection by its caller, then changeRealm and changeToCrowdedRealm.     *)

NoNodesError == "no nodes are available in the DAO for the current network"
\* fetchCatalystNodesFromDAO (shared/web3) rejecting.
DaoError == "fetchCatalystNodesFromDAO failed"
\* fetchCatalystNodes: the error thrown inside the try for a response that is not OK.
EndpointError == "Response was not OK"

\* The round rejects with `error`: fetchCatalystRealms throws to its caller.
RoundFails(error) ==
  /\ roundResult' = [kind |-> "error", error |-> error]
  /\ pc' = "roundFailed"

Init ==
  /\ pinCatalyst \in {<<>>, <<"A">>}
  /\ pickInput = <<>>
  /\ pickOutcome = NotCalled
  /\ FnIdle
  /\ RoundIdle
  /\ StoreEmpty
  /\ ObserverIdle

\* GotNodes, faulty: the length check left out.
GotNodesUnchecked(list) ==
  /\ nodes' = list
  /\ pc' = "health"
  /\ probes' = probes \cup {<<"health", list[i]>> : i \in 1..Len(list)}
  /\ UNCHANGED <<roundResult, health, healthyNodes, pings, wire>>

\* fetchCatalystRealms from `nodes` on: the length check, then one health
\* probe per node, all issued before the first await.
GotNodes(list) ==
  /\ nodes' = list
  /\ IF Len(list) = 0
     THEN /\ RoundFails(NoNodesError)
          /\ UNCHANGED probes
     ELSE /\ pc' = "health"
          /\ probes' = probes \cup {<<"health", list[i]>> : i \in 1..Len(list)}
          /\ UNCHANGED roundResult
  /\ UNCHANGED <<health, healthyNodes, pings, wire>>

\* StartRound, faulty: PIN_CATALYST is not looked at.
StartRoundIgnoringPin ==
  /\ pc = "idle"
  /\ \E endpoint \in {<<>>, <<"https://nodes">>} :
       /\ nodesEndpoint' = endpoint
       /\ IF endpoint # <<>>
          THEN /\ pc' = "endpoint"
          ELSE /\ pc' = "dao"
  /\ UNCHANGED <<nodes, health, healthyNodes, pings, roundResult, probes, wire, queried>>
  /\ UNCHANGED <<silent, refreshes, observerVars, fnVars, pickVars, configVars, storeVars>>

\* fetchCatalystRealms(nodesEndpoint) up to its first await: the pinned
\* catalyst, or fetchCatalystNodes(nodesEndpoint) up to its first await.
StartRound ==
  /\ pc = "idle"
  /\ \E endpoint \in {<<>>, <<"https://nodes">>} :
       /\ nodesEndpoint' = endpoint
       /\ IF pinCatalyst # <<>>
          THEN /\ GotNodes(pinCatalyst)
          ELSE /\ IF endpoint # <<>>
                  THEN /\ pc' = "endpoint"
                  ELSE /\ pc' = "dao"
               /\ UNCHANGED <<nodes, health, healthyNodes, pings, roundResult, probes, wire>>
  /\ UNCHANGED queried
  /\ UNCHANGED <<silent, refreshes, observerVars, fnVars, pickVars, configVars, storeVars>>

\* fetch(endpoint) answers OK with a JSON list of nodes.
EndpointAnswers ==
  /\ pc = "endpoint"
  /\ \E list \in NodeLists :
       /\ queried' = [endpoint |-> [ok |-> TRUE, nodes |-> list]]
       /\ GotNodes(list)
  /\ UNCHANGED <<nodesEndpoint, silent, refreshes, observerVars, fnVars, pickVars, configVars, storeVars>>

\* EndpointFails, faulty: the failure of the endpoint is rethrown.
EndpointFailsSurfacing ==
  /\ pc = "endpoint"
  /\ queried' = [endpoint |-> [ok |-> FALSE]]
  /\ RoundFails(EndpointError)
  /\ UNCHANGED <<nodesEndpoint, nodes, health, healthyNodes, pings, probes, wire>>
  /\ UNCHANGED <<silent, refreshes, observerVars, fnVars, pickVars, configVars, storeVars>>

\* fetch(endpoint) throws, or answers with a response that is not OK: the
\* catch logs a warning and fetchCatalystNodesFromDAO is called.
EndpointFails ==
  /\ pc = "endpoint"
  /\ queried' = [endpoint |-> [ok |-> FALSE]]
  /\ pc' = "dao"
  /\ UNCHANGED <<nodesEndpoint, nodes, health, healthyNodes, pings, roundResult, probes, wire>>
  /\ UNCHANGED <<silent, refreshes, observerVars, fnVars, pickVars, configVars, storeVars>>

AddField(r, field, value) ==
  [f \in DOMAIN r \cup {field} |-> IF f = field THEN value ELSE r[f]]

DaoAnswers ==
  /\ pc = "dao"
  /\ \E list \in NodeLists :
       /\ queried' = AddField(queried, "dao", [ok |-> TRUE, nodes |-> list])
       /\ GotNodes(list)
  /\ UNCHANGED <<nodesEndpoint, silent, refreshes, observerVars, fnVars, pickVars, configVars, storeVars>>

DaoThrows ==
  /\ pc = "dao"
  /\ queried' = AddField(queried, "dao", [ok |-> FALSE])
  /\ RoundFails(DaoError)
  /\ UNCHANGED <<nodesEndpoint, nodes, health, healthyNodes, pings, probes, wire>>
  /\ UNCHANGED <<silent, refreshes, observerVars, fnVars, pickVars, configVars, storeVars>>

\* What may become of the health request to a node: one that is never answered
\* is aborted by the timer of DEFAULT_TIMEOUT.
HealthAnswersOf(d) ==
  IF <<"health", d>> \in silent THEN {[kind |-> "timeout"]} ELSE HealthAnswers

\* The XMLHttpRequest of ping, faulty: no timeout is set, a request that is
\* never answered stays open.
PingAnswersOfWithoutTimeout(d) ==
  IF <<"status", d>> \in silent THEN {} ELSE PingAnswers

\* What may become of the status request to a node: one that is never answered
\* gets to DONE with status 0 when http.timeout runs out.
PingAnswersOf(d) ==
  IF <<"status", d>> \in silent THEN {[kind |-> "done", status |-> 0]} ELSE PingAnswers

\* fetchPeerHealthStatus(node) settles, whatever became of its request.
HealthSettles ==
  /\ pc = "health"
  /\ \E d \in Range(nodes) \ DOMAIN health : \E answer \in HealthAnswersOf(d) :
       LET settled == fetchPeerHealthStatus(answer)
       IN  /\ wire' = AddField(wire, <<"health", d>>, answer)
           /\ IF settled.kind = "returned"
              THEN /\ health' = AddField(health, d, settled.value)
                   /\ UNCHANGED <<pc, roundResult>>
              ELSE /\ RoundFails(settled.error)
                   /\ UNCHANGED health
  /\ UNCHANGED <<nodesEndpoint, nodes, healthyNodes, pings, queried, probes>>
  /\ UNCHANGED <<silent, refreshes, observerVars, fnVars, pickVars, configVars, storeVars>>

HealthyOnly(seq, responses) ==
  LET healthy(d) == isPeerHealthy(responses[d]) IN SelectSeq(seq, healthy)

\* StartPings, faulty: the pings go out once one health probe has settled,
\* to the nodes known healthy by then.
StartPingsEarly ==
  /\ pc = "health"
  /\ DOMAIN health # {}
  /\ ~ \E d \in DOMAIN health : isPeerHealthyThrows(health[d])
  /\ healthyNodes' = HealthyOnly(SelectSeq(nodes, LAMBDA d : d \in DOMAIN health), health)
  /\ probes' = probes \cup {<<"status", d>> : d \in Range(healthyNodes')}
  /\ pc' = "ping"
  /\ UNCHANGED <<nodesEndpoint, nodes, health, pings, roundResult, queried, wire>>
  /\ UNCHANGED <<silent, refreshes, observerVars, fnVars, pickVars, configVars, storeVars>>

\* Promise.all of the health probes resolves: the healthy nodes are kept
\* (the filter throws on a null health body) and fetchCatalystStatuses pings
\* each of them.
StartPings ==
  /\ pc = "health"
  /\ DOMAIN health = Range(nodes)
  /\ IF \E d \in Range(nodes) : isPeerHealthyThrows(health[d])
     THEN /\ RoundFails(NullKeysTypeError)
          /\ UNCHANGED <<healthyNodes, probes>>
     ELSE /\ healthyNodes' = HealthyOnly(nodes, health)
          /\ probes' = probes \cup {<<"status", d>> : d \in Range(healthyNodes')}
          /\ pc' = "ping"
          /\ UNCHANGED roundResult
  /\ UNCHANGED <<nodesEndpoint, nodes, health, pings, queried, wire>>
  /\ UNCHANGED <<silent, refreshes, observerVars, fnVars, pickVars, configVars, storeVars>>

\* The ping of a healthy node settles, whatever became of its request.
PingSettles ==
  /\ pc = "ping"
  /\ \E d \in Range(healthyNodes) \ DOMAIN pings : \E answer \in PingAnswersOf(d) :
       LET settled == ping(answer, Elapsed[d])
       IN  /\ wire' = AddField(wire, <<"status", d>>, answer)
           /\ IF settled.kind = "resolved"
              THEN /\ pings' = AddField(pings, d, settled.value)
                   /\ UNCHANGED <<pc, roundResult>>
              ELSE /\ RoundFails(settled.error)
                   /\ UNCHANGED pings
  /\ UNCHANGED <<nodesEndpoint, nodes, health, healthyNodes, queried, probes>>
  /\ UNCHANGED <<silent, refreshes, observerVars, fnVars, pickVars, configVars, storeVars>>

\* Promise.all of the pings resolves: the reduce builds the candidates, or
\* throws on a payload without env, and fetchCatalystRealms returns them.
Gather ==
  /\ pc = "ping"
  /\ DOMAIN pings = Range(healthyNodes)
  /\ IF fetchCatalystStatusesThrows(healthyNodes, pings)
     THEN RoundFails(EnvTypeError)
     ELSE /\ roundResult' = [kind |-> "candidates",
                              candidates |-> fetchCatalystStatuses(healthyNodes, pings)]
          /\ pc' = "fetched"
  /\ UNCHANGED <<nodesEndpoint, nodes, health, healthyNodes, pings, queried, probes, wire>>
  /\ UNCHANGED <<silent, refreshes, observerVars, fnVars, pickVars, configVars, storeVars>>

-----------------------------------------------------------------------------
(* Realm strings and changeRealm.                                          *)

Dash == "-"

\* utils/realmToString
realmToString(r) ==
  IF Has(r, "layer") THEN r.catalystName \o <<Dash>> \o r.layer ELSE r.catalystName

\* String.prototype.split('-')
RECURSIVE Split(_)
Split(str) ==
  IF \A i \in 1..Len(str) : str[i] # Dash THEN <<str>>
  ELSE LET i == CHOOSE i \in 1..Len(str) :
                  str[i] = Dash /\ \A j \in 1..(i - 1) : str[j] # Dash
       IN  <<SubSeq(str, 1, i - 1)>> \o Split(SubSeq(str, i + 1, Len(str)))

\* realmForLayer / realmFor: <<realm>> of the first candidate that find
\* meets, or <<>> for undefined.
realmForLayer(name, layer, cands) ==
  LET match(it) == it.type = "layer-based" /\ it.catalystName = name /\ it.layer.name = layer
      found == SelectSeq(cands, match)
  IN  IF found # <<>> THEN <<candidateToRealm(Head(found))>> ELSE <<>>

realmFor(name, cands) ==
  LET match(it) == it.type = "islands-based" /\ it.catalystName = name
      found == SelectSeq(cands, match)
  IN  IF found # <<>> THEN <<candidateToRealm(Head(found))>> ELSE <<>>

getRealmFromString(realmString, cands) ==
  LET parts == Split(realmString)
  IN  IF Len(parts) = 2 THEN realmForLayer(parts[1], parts[2], cands)
      ELSE realmFor(parts[1], cands)

\* The candidates of a list that a realm is the realm of.
CandidatesOf(r, cands) == {c \in Range(cands) : candidateToRealm(c) = r}

\* The realm strings a caller may give: every catalyst, with and without a
\* layer, and one that names no catalyst.
RealmStrings ==
  {CatalystName[d] : d \in Domains}
  \cup {CatalystName[d] \o <<Dash>> \o l : d \in Domains, l \in LayerNames}
  \cup {<<"z">>}

changeRealm(realmString) ==
  LET found == getRealmFromString(realmString, candidates)
  IN  /\ IF found # <<>>
         THEN /\ realm' = found
              /\ publishedFrom' = CandidatesOf(found[1], candidates)
         ELSE UNCHANGED <<realm, publishedFrom>>
      /\ UNCHANGED <<candidates, crowded>>

ChangeRealm ==
  /\ pc = "running"
  /\ \E realmString \in RealmStrings : changeRealm(realmString)
  /\ UNCHANGED <<silent, refreshes, observerVars, fnVars, pickVars, configVars, roundVars>>

-----------------------------------------------------------------------------
(* What a call waiting on the store has come to, and the wait for the      *)
(* connection to the published realm.                                      *)

CommsStatuses == {"connecting", "connected", "error", "realm-full"}

\* atomicHelpers/deepEqual: structural equality.
deepEqual(a, b) == a = b

Pending == [state |-> "pending"]
Settled(how) == [state |-> how]
RejectedWith(status) == [state |-> "rejected", with |-> status]

\* catalystRealmConnected, faulty: 'realm-full' is not looked at.
catalystRealmConnectedIgnoringFull(state) ==
  IF state.commsStatus = "connected" THEN Settled("resolved")
  ELSE IF state.commsStatus = "error" THEN RejectedWith(state.commsStatus)
  ELSE Pending

\* The test that catalystRealmConnected makes on the state, at the call and
\* again in its subscriber at every notification.
catalystRealmConnected(state) ==
  IF state.commsStatus = "connected" THEN Settled("resolved")
  ELSE IF state.commsStatus = "error" \/ state.commsStatus = "realm-full"
  THEN RejectedWith(state.commsStatus)
  ELSE Pending

-----------------------------------------------------------------------------
(* CrowdedRealmFinder: changeToCrowdedRealm.                               *)

\* shared/comms/interface/utils countParcelsCloseTo
RECURSIVE countParcelsCloseTo(_, _, _)
countParcelsCloseTo(origin, parcels, distance) ==
  IF parcels = <<>> THEN 0
  ELSE (IF /\ Abs(Head(parcels)[1] - origin[1]) <= distance
           /\ Abs(Head(parcels)[2] - origin[2]) <= distance
        THEN 1 ELSE 0)
       + countParcelsCloseTo(origin, Tail(parcels), distance)

\* The filter of changeToCrowdedRealm, faulty: full layers pass.
crowdedEligibleFullToo(it) ==
  /\ it.type = "layer-based"
  /\ Has(it.layer, "usersParcels")
  /\ Len(it.layer.usersParcels) > 0

\* The filter of changeToCrowdedRealm.
crowdedEligible(it) ==
  /\ it.type = "layer-based"
  /\ Has(it.layer, "usersParcels")
  /\ Len(it.layer.usersParcels) > 0
  /\ it.layer.maxUsers # <<>>
  /\ it.layer.usersCount < it.layer.maxUsers[1]

\* closePeople of one candidate, less the player when it is the player's realm.
closePeopleOf(candidate, currentRealm, currentPosition) ==
  LET closePeople == countParcelsCloseTo(currentPosition, candidate.layer.usersParcels,
                                         CloseDistance)
  IN  IF /\ candidate.catalystName = currentRealm.catalystName
         /\ Has(currentRealm, "layer")
         /\ candidate.layer.name = currentRealm.layer
      THEN closePeople - 1
      ELSE closePeople

\* The forEach over the filtered candidates, from crowdedRealm on.
RECURSIVE crowdedRealmOf(_, _, _, _)
crowdedRealmOf(cands, currentRealm, currentPosition, crowdedRealm) ==
  IF cands = <<>> THEN crowdedRealm
  ELSE LET candidate == Head(cands)
           closePeople == closePeopleOf(candidate, currentRealm, currentPosition)
       IN  crowdedRealmOf(Tail(cands), currentRealm, currentPosition,
             IF closePeople > crowdedRealm.closePeople
             THEN [realm |-> candidateToRealm(candidate), closePeople |-> closePeople,
                   from |-> {candidate}]
             ELSE crowdedRealm)

\* getCandidateDomains: the domains of the published candidates, each once,
\* in the order a Set keeps (first appearance).
RECURSIVE getCandidateDomains(_)
getCandidateDomains(cands) ==
  IF cands = <<>> THEN <<>>
  ELSE LET rest == getCandidateDomains(SubSeq(cands, 1, Len(cands) - 1))
           d == cands[Len(cands)].domain
       IN  IF d \in Range(rest) THEN rest ELSE Append(rest, d)

\* Where a call of changeToCrowdedRealm stands: at the await of the pings of
\* refreshCandidatesStatuses, or at the await of catalystRealmConnected with
\* its locals crowdedRealm.realm and currentRealm.
Probing(domains) == [kind |-> "probing", domains |-> domains]
Connecting(newRealm, currentRealm) ==
  [kind |-> "connecting", realm |-> newRealm, currentRealm |-> currentRealm]

\* changeToCrowdedRealm up to the await of the pings of refreshCandidatesStatuses;
\* one call is followed, made at any moment once a realm is published.
CrowdedStart ==
  /\ pc = "running"
  /\ crowded = NotCalled
  /\ crowded' = Probing(getCandidateDomains(candidates))
  /\ UNCHANGED <<candidates, realm, publishedFrom>>
  /\ UNCHANGED <<silent, refreshes, observerVars, fnVars, pickVars, configVars, roundVars>>

\* The crowded realm of the refreshed candidates, from the current realm on.
crowdedRealmFrom(fresh, currentRealm) ==
  crowdedRealmOf(SelectSeq(fresh, crowdedEligible), currentRealm, PlayerParcel,
                 [realm |-> currentRealm, closePeople |-> 0, from |-> {}])

\* The pings settle: refreshCandidatesStatuses publishes the new candidates,
\* and changeToCrowdedRealm publishes the crowded realm when it is not the
\* current one and waits for the connection to it; otherwise it returns
\* [false, currentRealm].
changeToCrowdedRealm(fresh) ==
  LET currentRealm == realm[1]
      crowdedRealm == crowdedRealmFrom(fresh, currentRealm)
  IN  /\ candidates' = fresh
      /\ IF ~ deepEqual(crowdedRealm.realm, currentRealm)
         THEN /\ realm' = <<crowdedRealm.realm>>
              /\ publishedFrom' = CandidatesOf(crowdedRealm.realm, fresh)
              /\ crowded' = Connecting(crowdedRealm.realm, currentRealm)
         ELSE /\ UNCHANGED <<realm, publishedFrom>>
              /\ crowded' = Returned(<<FALSE, currentRealm>>)

\* When fetchCatalystStatuses throws, changeToCrowdedRealm rejects with
\* nothing published.
CrowdedFinish ==
  /\ pc = "running"
  /\ crowded.kind = "probing"
  /\ \E ra \in (IF "A" \in Range(crowded.domains) THEN PingResultsOf["A"] ELSE {<<>>}) :
     \E rb \in (IF "B" \in Range(crowded.domains) THEN PingResultsOf["B"] ELSE {<<>>}) :
       LET all == [d \in Domains |-> IF d = "A" THEN ra ELSE rb]
           results == [d \in Range(crowded.domains) |-> all[d]]
       IN  IF fetchCatalystStatusesThrows(crowded.domains, results)
           THEN /\ crowded' = Thrown(EnvTypeError)
                /\ UNCHANGED <<candidates, realm, publishedFrom>>
           ELSE changeToCrowdedRealm(fetchCatalystStatuses(crowded.domains, results))
  /\ UNCHANGED <<silent, refreshes, observerVars, fnVars, pickVars, configVars, roundVars>>

\* The await of catalystRealmConnected settles with the status the comms
\* report for the published realm: changeToCrowdedRealm returns
\* [true, crowdedRealm.realm], or rejects with the status.
CrowdedConnects ==
  /\ pc = "running"
  /\ crowded.kind = "connecting"
  /\ \E status \in CommsStatuses \ {"connecting"} :
       LET settled == catalystRealmConnected([daoState EXCEPT !.commsStatus = status])
       IN  crowded' = IF settled = Settled("resolved")
                      THEN Returned(<<TRUE, crowded.realm>>)
                      ELSE Thrown(settled.with)
  /\ UNCHANGED <<candidates, realm, publishedFrom>>
  /\ UNCHANGED <<silent, refreshes, observerVars, fnVars, pickVars, configVars, roundVars>>

-----------------------------------------------------------------------------
(* The caller of the discovery round (dao/sagas): it publishes the round's *)
(* candidates, selects with pickCatalystRealm and publishes the realm.     *)

InitialSelection ==
  /\ pc = "fetched"
  /\ candidates' = roundResult.candidates
  /\ \E outcome \in pickCatalystRealm(roundResult.candidates) :
       IF outcome.kind = "realm"
       THEN /\ realm' = <<outcome.realm>>
            /\ publishedFrom' = CandidatesOf(outcome.realm, roundResult.candidates)
            /\ pickOutcome' = [kind |-> "realm"]
            /\ pc' = "running"
       ELSE /\ pickOutcome' = outcome
            /\ pc' = "selectionFailed"
            /\ UNCHANGED <<realm, publishedFrom>>
  /\ nodesEndpoint' = <<>>
  /\ nodes' = <<>>
  /\ health' = EmptyMap
  /\ healthyNodes' = <<>>
  /\ pings' = EmptyMap
  /\ roundResult' = NotCalled
  /\ probes' = {}
  /\ wire' = EmptyMap
  /\ queried' = EmptyMap
  /\ UNCHANGED <<silent, refreshes, observerVars, fnVars, pickInput, configVars, crowded>>

RoundNext ==
  \/ StartRound
  \/ EndpointAnswers
  \/ EndpointFails
  \/ DaoAnswers
  \/ DaoThrows
  \/ HealthSettles
  \/ StartPings
  \/ PingSettles
  \/ Gather

Next ==
  \/ RoundNext
  \/ InitialSelection
  \/ ChangeRealm
  \/ CrowdedStart
  \/ CrowdedFinish
  \/ CrowdedConnects

Spec == Init /\ [][Next]_vars

\* The discovery round on its own, some of the requests never answered.  Each
\* probe that is out settles in the end, by an answer or by its timeout, and
\* the continuations of the awaits run.
\* The requests that may go unanswered: of a node, its health request or
\* its status request (a node whose health request is not answered is not
\* sent a status request).
SilentRequests ==
  {s \in SUBSET ({"health", "status"} \X Domains) :
     \A d \in Domains : ~ (<<"health", d>> \in s /\ <<"status", d>> \in s)}

RoundInit ==
  /\ pinCatalyst \in {<<>>, <<"A">>}
  /\ pickInput = <<>>
  /\ pickOutcome = NotCalled
  /\ FnIdle
  /\ silent \in SilentRequests
  /\ RoundUnstarted
  /\ StoreEmpty
  /\ ObserverIdle

SpecRound ==
  /\ RoundInit
  /\ [][RoundNext]_vars
  /\ WF_vars(HealthSettles)
  /\ WF_vars(StartPings)
  /\ WF_vars(PingSettles)
  /\ WF_vars(Gather)

-----------------------------------------------------------------------------
(* refreshCandidatesStatuses on its own: calls that may overlap, two at a  *)
(* time, each pinging the domains of the candidates published when it      *)
(* starts, each ping settling on its own.                                  *)

\* The status payloads answered during a refresh: islands with nobody, two
\* layers, and a body without env.
RefreshPayloads ==
  {p \in Payloads : \/ Has(p, "usersCount") /\ p.usersCount = 0
                    \/ Has(p, "layers") /\ Len(p.layers) = 2 /\ p.layers[1].usersCount = 1}
  \cup {MalformedPayload}

RefreshPings ==
  [d \in Domains |->
     {r \in PingResultsOf[d] :
        ~ (Has(r, "status") /\ r.status = OK) \/ r.result \in RefreshPayloads}]

\* The candidates in the store when the refreshes begin: the output of a
\* round that found both catalysts with islands and nobody in them.
PublishedAtStart ==
  fetchCatalystStatuses(<<"A", "B">>,
    [d \in Domains |-> CHOOSE r \in RefreshPings[d] :
                         /\ Has(r, "status") /\ r.status = OK
                         /\ r.result = [usersCount |-> 0, env |-> Env]])

RefreshInit ==
  /\ FnIdle
  /\ pickInput = <<>>
  /\ pickOutcome = NotCalled
  /\ pinCatalyst = <<>>
  /\ RoundIdle
  /\ candidates = PublishedAtStart
  /\ realm = <<>>
  /\ publishedFrom = {}
  /\ crowded = NotCalled
  /\ refreshes = NoRefreshes
  /\ ObserverIdle

Refreshing(domains, results) == [kind |-> "probing", domains |-> domains, results |-> results]

\* refreshCandidatesStatuses, faulty: the candidates of the domains that
\* gave none this time are kept from the store.
refreshCandidatesStatusesKeepingOld(round) ==
  LET fresh == fetchCatalystStatuses(round.domains, round.results)
  IN  fresh \o SelectSeq(candidates,
                 LAMBDA c : \A i \in 1..Len(fresh) : fresh[i].domain # c.domain)

\* The list that refreshCandidatesStatuses dispatches once fetchCatalystStatuses
\* has returned.
refreshCandidatesStatuses(round) ==
  fetchCatalystStatuses(round.domains, round.results)

\* refreshCandidatesStatuses up to the await: fetchCatalystStatuses has
\* issued a ping to each domain of the published candidates.
RefreshStart ==
  /\ \E id \in RefreshIds :
       /\ refreshes[id] = NotCalled
       /\ \A earlier \in CalledBefore(id) : refreshes[earlier] # NotCalled
       /\ Cardinality({other \in RefreshIds : refreshes[other].kind = "probing"}) <= 1
       /\ refreshes' = [refreshes EXCEPT ![id] =
                          Refreshing(getCandidateDomains(candidates), EmptyMap)]
  /\ UNCHANGED <<candidates, realm, publishedFrom, crowded>>
  /\ UNCHANGED <<silent, observerVars, fnVars, pickVars, configVars, roundVars>>

\* One ping of one call settles: its result goes to the call's own results.
RefreshPingSettles ==
  /\ \E id \in RefreshIds :
       /\ refreshes[id].kind = "probing"
       /\ \E d \in Range(refreshes[id].domains) \ DOMAIN refreshes[id].results :
          \E r \in RefreshPings[d] :
            refreshes' = [refreshes EXCEPT ![id].results = AddField(@, d, r)]
  /\ UNCHANGED <<candidates, realm, publishedFrom, crowded>>
  /\ UNCHANGED <<silent, observerVars, fnVars, pickVars, configVars, roundVars>>

\* Every ping of a call has settled: fetchCatalystStatuses returns the
\* candidates and refreshCandidatesStatuses dispatches them, or
\* fetchCatalystStatuses throws and nothing is dispatched.
RefreshPublishes ==
  /\ \E id \in RefreshIds :
       LET round == refreshes[id]
       IN  /\ round.kind = "probing"
           /\ DOMAIN round.results = Range(round.domains)
           /\ IF fetchCatalystStatusesThrows(round.domains, round.results)
              THEN /\ refreshes' = [refreshes EXCEPT ![id].kind = "thrown"]
                   /\ UNCHANGED candidates
              ELSE /\ refreshes' = [refreshes EXCEPT ![id].kind = "published"]
                   /\ candidates' = refreshCandidatesStatuses(round)
  /\ UNCHANGED <<realm, publishedFrom, crowded>>
  /\ UNCHANGED <<silent, observerVars, fnVars, pickVars, configVars, roundVars>>

RefreshNext ==
  \/ RefreshStart
  \/ RefreshPingSettles
  \/ RefreshPublishes

SpecRefresh == RefreshInit /\ [][RefreshNext]_vars

-----------------------------------------------------------------------------
(* The scorers on their own: layerScore and islandsScore applied once to   *)
(* an argument drawn from their parameter types.                           *)

\* layer.maxUsers: absent, or a number (0, 1, a small capacity, the default).
MaxUsersValues == {<<>>} \cup {<<m>> : m \in 0..(MaxScoredUsers + 1)}

ScoreInputs ==
  {[fn |-> "layerScore", layer |-> [name |-> <<"r">>, usersCount |-> u, maxUsers |-> m]]
     : u \in 0..MaxScoredUsers, m \in MaxUsersValues}
  \cup {[fn |-> "islandsScore", usersCount |-> u] : u \in 0..MaxScoredUsers}

ScoreInit ==
  /\ fnInput \in ScoreInputs
  /\ fnOutput = NotCalled
  /\ pickInput = <<>>
  /\ pickOutcome = NotCalled
  /\ pinCatalyst = <<>>
  /\ RoundIdle
  /\ StoreEmpty
  /\ ObserverIdle

ScoreLayer ==
  /\ fnOutput = NotCalled
  /\ fnInput.fn = "layerScore"
  /\ fnOutput' = Returned(layerScore(fnInput.layer))
  /\ UNCHANGED <<silent, refreshes, observerVars, fnInput, pickVars, configVars, roundVars, storeVars>>

ScoreIslands ==
  /\ fnOutput = NotCalled
  /\ fnInput.fn = "islandsScore"
  /\ fnOutput' = Returned(islandsScore(fnInput.usersCount))
  /\ UNCHANGED <<silent, refreshes, observerVars, fnInput, pickVars, configVars, roundVars, storeVars>>

ScoreNext ==
  \/ ScoreLayer
  \/ ScoreIslands

SpecScore == ScoreInit /\ [][ScoreNext]_vars

-----------------------------------------------------------------------------
(* Realm strings on their own: getRealmFromString applied once, to a       *)
(* string a caller gives (Parse) or to the string that realmToString makes *)
(* of the realm of a candidate of the list (RoundTrip).                    *)

\* Layer names are free text: one without and one with a '-'.
ParseLayerNames == {<<"r">>, <<"r", Dash, "x">>}

\* Candidates as fetchCatalystStatuses builds them; a catalyst reports its
\* own name, so the catalyst of domain B may also call itself "a".
ParseCandidates ==
  LET built ==
        {buildLayerCandidate(d, OK, Elapsed[d],
                             [name |-> n, usersCount |-> 1, maxUsers |-> <<LayerCapacity>>])
           : d \in Domains, n \in ParseLayerNames}
        \cup {buildIslandsCandidate(d, OK, Elapsed[d], 1) : d \in Domains}
  IN  built \cup {[c EXCEPT !.catalystName = CatalystName["A"]] : c \in {b \in built : b.domain = "B"}}

ParseStrings ==
  {<<"a">>, <<"b">>, <<"a", Dash, "r">>, <<"a", Dash, "r", Dash, "x">>, <<"z">>}

ParseInit ==
  /\ \E n \in 0..MaxCandidates : \E cands \in [1..n -> ParseCandidates] :
       \/ \E str \in ParseStrings :
            fnInput = [fn |-> "getRealmFromString", candidates |-> cands, realmString |-> str]
       \/ \E i \in 1..n :
            fnInput = [fn |-> "round trip", candidates |-> cands, index |-> i]
  /\ fnOutput = NotCalled
  /\ pickInput = <<>>
  /\ pickOutcome = NotCalled
  /\ pinCatalyst = <<>>
  /\ RoundIdle
  /\ StoreEmpty
  /\ ObserverIdle

Parse ==
  /\ fnOutput = NotCalled
  /\ fnInput.fn = "getRealmFromString"
  /\ fnOutput' = Returned(getRealmFromString(fnInput.realmString, fnInput.candidates))
  /\ UNCHANGED <<silent, refreshes, observerVars, fnInput, pickVars, configVars, roundVars, storeVars>>

\* getRealmFromString(realmToString(candidateToRealm(candidates[index])), candidates)
RoundTrip ==
  /\ fnOutput = NotCalled
  /\ fnInput.fn = "round trip"
  /\ LET r == candidateToRealm(fnInput.candidates[fnInput.index])
     IN  fnOutput' = Returned(getRealmFromString(realmToString(r), fnInput.candidates))
  /\ UNCHANGED <<silent, refreshes, observerVars, fnInput, pickVars, configVars, roundVars, storeVars>>

ParseNext ==
  \/ Parse
  \/ RoundTrip

SpecParse == ParseInit /\ [][ParseNext]_vars

-----------------------------------------------------------------------------
(* changeRealm on its own: one call with a string a caller gives, over a   *)
(* published list whose names are free text.                               *)

ChangeInit ==
  /\ \E n \in 0..MaxCandidates : \E cands \in [1..n -> ParseCandidates] :
       /\ candidates = cands
       /\ \E str \in ParseStrings : fnInput = [fn |-> "changeRealm", realmString |-> str]
  /\ fnOutput = NotCalled
  /\ pickInput = <<>>
  /\ pickOutcome = NotCalled
  /\ pinCatalyst = <<>>
  /\ RoundIdle
  /\ realm = <<>>
  /\ publishedFrom = {}
  /\ crowded = NotCalled
  /\ refreshes = NoRefreshes
  /\ ObserverIdle

\* changeRealm(realmString), with what it returns.
ChangeRealmReturns ==
  /\ fnOutput = NotCalled
  /\ fnInput.fn = "changeRealm"
  /\ changeRealm(fnInput.realmString)
  /\ fnOutput' = Returned(getRealmFromString(fnInput.realmString, candidates))
  /\ UNCHANGED <<silent, refreshes, observerVars, fnInput, pickVars, configVars, roundVars>>

SpecChange == ChangeInit /\ [][ChangeRealmReturns]_vars

-----------------------------------------------------------------------------
(* The store's subscribers on their own: the realm observer with the URL   *)
(* listener, and the waiting primitives, under any sequence of dispatches  *)
(* that the rest of the application makes.  A dispatch changes the state   *)
(* and then runs every subscriber, in one step.                            *)

\* The subscriber of observeRealmChange, faulty: no comparison with the
\* previous realm.
observerNotifiedWithoutCompare(previousRealm, stateRealm) ==
  [currentRealm |-> stateRealm,
   calls |-> IF stateRealm # <<>>
             THEN <<[previous |-> previousRealm, current |-> stateRealm]>>
             ELSE <<>>]

\* The subscriber of observeRealmChange at one notification: the closure's
\* new currentRealm and the invocations of onRealmChange it makes.
observerNotified(previousRealm, stateRealm) ==
  [currentRealm |-> stateRealm,
   calls |-> IF stateRealm # <<>> /\ ~ deepEqual(previousRealm, stateRealm)
             THEN <<[previous |-> previousRealm, current |-> stateRealm]>>
             ELSE <<>>]

\* The listener of initializeUrlRealmObserver: q.realm = realmToString(currentRealm).
urlListener(currentRealm) == <<realmToString(currentRealm[1])>>

\* The test that each waiting primitive makes on the state, at the call
\* and again in its subscriber at every notification.
candidatesFetched(state) ==
  IF state.fetched THEN Settled("resolved") ELSE Pending

realmInitialized(state) ==
  IF state.initialized THEN Settled("resolved") ELSE Pending

Waiters == {"candidatesFetched", "realmInitialized", "catalystRealmConnected"}

\* waitTest, faulty: a subscriber resolves at the first notification
\* without looking at the state.
waitTestAtAnyChange(fn, state, calling) ==
  IF fn = "catalystRealmConnected" THEN catalystRealmConnected(state)
  ELSE IF ~ calling THEN Settled("resolved")
  ELSE IF fn = "candidatesFetched" THEN candidatesFetched(state)
  ELSE realmInitialized(state)

\* The test of the waiting primitive fn, at its call (calling) or in its subscriber.
waitTest(fn, state, calling) ==
  IF fn = "candidatesFetched" THEN candidatesFetched(state)
  ELSE IF fn = "realmInitialized" THEN realmInitialized(state)
  ELSE catalystRealmConnected(state)

\* A waiting primitive is called: it settles at once, with no subscription,
\* or subscribes.
waitCalled(fn, state) ==
  LET test == waitTest(fn, state, TRUE)
  IN  [fn |-> fn, is |-> test, subscribed |-> FALSE,
       subscription |-> IF test = Pending THEN "active" ELSE "none",
       unsubscribes |-> 0, ran |-> FALSE]

\* The subscriber, faulty: unsubscribe is not called.
waitNotifiedKeepingSubscription(w, state) ==
  LET test == waitTest(w.fn, state, FALSE)
  IN  [w EXCEPT !.is = IF w.is = Pending THEN test ELSE w.is,
                !.subscribed = TRUE,
                !.ran = TRUE]

\* The subscriber of a waiting primitive at one notification: it tests the
\* state and, when the test settles the promise, calls unsubscribe.  A
\* promise that is settled stays as it is.
waitNotified(w, state) ==
  LET test == waitTest(w.fn, state, FALSE)
  IN  [w EXCEPT !.is = IF w.is = Pending THEN test ELSE w.is,
                !.subscribed = TRUE,
                !.subscription = IF test = Pending THEN "active" ELSE "removed",
                !.unsubscribes = IF test = Pending THEN @ ELSE @ + 1,
                !.ran = TRUE]

\* The realms that the store may hold: none, a layer of catalyst a, the
\* islands of catalyst b.
StoreRealms ==
  {<<>>,
   <<candidateToRealm(buildLayerCandidate("A", OK, Elapsed["A"],
       [name |-> <<"r">>, usersCount |-> 1, maxUsers |-> <<LayerCapacity>>]))>>,
   <<candidateToRealm(buildIslandsCandidate("B", OK, Elapsed["B"], 1))>>}

StoreInit ==
  /\ FnIdle
  /\ pickInput = <<>>
  /\ pickOutcome = NotCalled
  /\ pinCatalyst = <<>>
  /\ RoundIdle
  /\ StoreEmpty
  /\ ObserverIdle

\* initializeUrlRealmObserver(): observeRealmChange reads the realm and subscribes.
InitializeUrlRealmObserver ==
  /\ observed = Unregistered
  /\ observed' = [registered |-> TRUE, currentRealm |-> realm]
  /\ notified' = <<>>
  /\ UNCHANGED <<daoState, url, waits>>
  /\ UNCHANGED <<silent, refreshes, fnVars, pickVars, configVars, roundVars, storeVars>>

\* A waiting primitive is called: it settles at once or subscribes.
CallWait ==
  /\ waits = NotCalled
  /\ \E fn \in Waiters : waits' = waitCalled(fn, daoState)
  /\ notified' = <<>>
  /\ UNCHANGED <<daoState, observed, url>>
  /\ UNCHANGED <<silent, refreshes, fnVars, pickVars, configVars, roundVars, storeVars>>

\* The subscribers run on the new state: the realm observer with its URL
\* listener, and the subscriber of the waiting primitive while it is pending.
Notify(newRealm, newState) ==
  /\ IF observed.registered
     THEN LET n == observerNotified(observed.currentRealm, newRealm)
          IN  /\ observed' = [registered |-> TRUE, currentRealm |-> n.currentRealm]
              /\ notified' = [calls |-> n.calls]
              /\ url' = IF n.calls # <<>> THEN urlListener(n.calls[1].current) ELSE url
     ELSE /\ notified' = [calls |-> <<>>]
          /\ UNCHANGED <<observed, url>>
  /\ IF waits # NotCalled /\ waits.subscription = "active"
     THEN waits' = waitNotified(waits, newState)
     ELSE IF waits # NotCalled
     THEN waits' = [waits EXCEPT !.ran = FALSE]
     ELSE UNCHANGED waits

\* store.dispatch(setCatalystRealm(r)), or the realm cleared.
DispatchRealm ==
  /\ \E r \in StoreRealms :
       /\ realm' = r
       /\ Notify(r, daoState)
  /\ UNCHANGED daoState
  /\ UNCHANGED <<candidates, publishedFrom, crowded>>
  /\ UNCHANGED <<silent, refreshes, fnVars, pickVars, configVars, roundVars>>

\* A dispatch that changes what one of the selectors reads.
DispatchDaoState ==
  /\ \E newState \in
         {[daoState EXCEPT !.fetched = b] : b \in BOOLEAN}
         \cup {[daoState EXCEPT !.initialized = b] : b \in BOOLEAN}
         \cup {[daoState EXCEPT !.commsStatus = status] : status \in CommsStatuses} :
       /\ newState # daoState
       /\ daoState' = newState
       /\ Notify(realm, newState)
  /\ UNCHANGED <<silent, refreshes, fnVars, pickVars, configVars, roundVars, storeVars>>

\* A dispatch that changes nothing of the dao state.
DispatchUnrelated ==
  /\ Notify(realm, daoState)
  /\ UNCHANGED daoState
  /\ UNCHANGED <<silent, refreshes, fnVars, pickVars, configVars, roundVars, storeVars>>

StoreNext ==
  \/ InitializeUrlRealmObserver
  \/ CallWait
  \/ DispatchRealm
  \/ DispatchDaoState
  \/ DispatchUnrelated

SpecStore == StoreInit /\ [][StoreNext]_vars

-----------------------------------------------------------------------------
(* Properties of pickCatalystRealm, under SpecPick.                        *)

Picked == pickOutcome.kind = "realm"
PickFailed == pickOutcome.kind = "error"

\* A candidate that may be selected, in the words of the filter's contract:
\* status OK, and islands-based or a layer with usersCount < maxUsers.
OkWithRoom(c) ==
  /\ c.status = OK
  /\ \/ c.type = "islands-based"
     \/ /\ c.type = "layer-based"
        /\ c.layer.maxUsers # <<>>
        /\ c.layer.usersCount < c.layer.maxUsers[1]

FullLayer(c) ==
  /\ c.type = "layer-based"
  /\ c.layer.maxUsers # <<>>
  /\ c.layer.usersCount >= c.layer.maxUsers[1]

PickInputs == Range(pickInput)
WithRoom == {i \in 1..Len(pickInput) : OkWithRoom(pickInput[i])}

\* C1: the realm that pickCatalystRealm returns is the realm of a candidate of
\* its argument whose status is OK and that is islands-based or a layer
\* with usersCount < maxUsers; the selected candidate is never a full layer.
C1_PickedIsOkWithRoom ==
  Picked =>
    /\ pickOutcome.from \in PickInputs
    /\ pickOutcome.realm = candidateToRealm(pickOutcome.from)
    /\ OkWithRoom(pickOutcome.from)
    /\ ~ FullLayer(pickOutcome.from)

\* C1's case: a realm was picked although an OK full layer of the argument
\* answered more than 1500 ms faster than the selected candidate.
C1_Witness ==
  /\ Picked
  /\ \E c \in PickInputs :
       /\ FullLayer(c) /\ c.status = OK
       /\ pickOutcome.from.elapsed - c.elapsed > ElapsedThreshold

\* C3: when exactly two candidates of the argument may be selected and
\* their elapsed times differ by more than 1500 ms, the one with the lower
\* elapsed time is selected, whatever the scores and the users by domain.
C3_LatencyDominates ==
  (pickOutcome # NotCalled /\ Cardinality(WithRoom) = 2) =>
    \A i, j \in WithRoom :
      pickInput[j].elapsed - pickInput[i].elapsed > ElapsedThreshold
        => (Picked /\ pickOutcome.from = pickInput[i])

\* C3's case: the faster of the two won with the lower score and the more
\* crowded domain.
C3_Witness ==
  /\ Picked
  /\ Cardinality(WithRoom) = 2
  /\ \E j \in WithRoom :
       /\ pickInput[j].elapsed - pickOutcome.from.elapsed > ElapsedThreshold
       /\ pickInput[j].score > pickOutcome.from.score
       /\ usersByDomain(pickInput)[pickInput[j].domain]
            < usersByDomain(pickInput)[pickOutcome.from.domain]

\* C4: when exactly two candidates of the argument may be selected, their
\* elapsed times differ by at most 1500 ms and their scores differ, the one
\* with the higher score is selected.
C4_ScoreDecidesWithinThreshold ==
  (pickOutcome # NotCalled /\ Cardinality(WithRoom) = 2) =>
    \A i, j \in WithRoom :
      (/\ Abs(pickInput[j].elapsed - pickInput[i].elapsed) <= ElapsedThreshold
       /\ pickInput[i].score > pickInput[j].score)
        => (Picked /\ pickOutcome.from = pickInput[i])

\* C4's case: an islands-based candidate with a user won over an empty
\* layer that answered faster, by exactly 1500 ms.
C4_Witness ==
  /\ Picked
  /\ Cardinality(WithRoom) = 2
  /\ pickOutcome.from.type = "islands-based"
  /\ pickOutcome.from.score = 101 * ScoreScale
  /\ \E j \in WithRoom :
       /\ pickInput[j].type = "layer-based"
       /\ pickInput[j].score = -50 * ScoreScale
       /\ pickOutcome.from.elapsed - pickInput[j].elapsed = ElapsedThreshold

\* C5: with a non-empty argument of which no candidate passes the filter,
\* pickCatalystRealm throws "No available realm found!" and returns nothing.
C5_NoneSelectableThrows ==
  (pickOutcome # NotCalled /\ Len(pickInput) > 0 /\ WithRoom = {}) =>
    pickOutcome = [kind |-> "error", error |-> NoRealmError]

\* C5's case: the call failed on an argument holding both a candidate that
\* is not OK and an OK full layer.
C5_Witness ==
  /\ PickFailed
  /\ \E c \in PickInputs : c.status # OK
  /\ \E c \in PickInputs : c.status = OK /\ FullLayer(c)

\* C6: with an empty argument pickCatalystRealm fails with a selection
\* error of its own, told apart from "No available realm found!", and not
\* with an internal fault.
C6_EmptyListSelectionError ==
  (pickOutcome # NotCalled /\ pickInput = <<>>) =>
    /\ PickFailed
    /\ pickOutcome.error # NoRealmError
    /\ pickOutcome.error # UndefinedTypeError

\* The users of every candidate of the argument that is of the domain,
\* whether it passes the filter or not.
DomainTotal(domain) == SumUsers(pickInput, domain, 1)

\* C27: when exactly two candidates of the argument may be selected, their
\* elapsed times differ by at most 1500 ms and their scores are equal, the
\* one whose domain has the smaller total of users is selected, the total
\* counting every candidate of the domain in the argument, full layers
\* included; with equal totals, the one with the lower elapsed time.
C27_UsersByDomainBreaksTies ==
  (pickOutcome # NotCalled /\ Cardinality(WithRoom) = 2) =>
    \A i, j \in WithRoom :
      (/\ Abs(pickInput[j].elapsed - pickInput[i].elapsed) <= ElapsedThreshold
       /\ pickInput[i].score = pickInput[j].score
       /\ \/ DomainTotal(pickInput[i].domain) < DomainTotal(pickInput[j].domain)
          \/ /\ DomainTotal(pickInput[i].domain) = DomainTotal(pickInput[j].domain)
             /\ pickInput[i].elapsed < pickInput[j].elapsed)
        => (Picked /\ pickOutcome.from = pickInput[i])

\* C27's case: of two candidates with the same score and the same users,
\* the slower one won because the domain of the other also has a full layer.
C27_Witness ==
  /\ Picked
  /\ Cardinality(WithRoom) = 2
  /\ \E j \in WithRoom :
       /\ pickInput[j].score = pickOutcome.from.score
       /\ candidateUsers(pickInput[j]) = candidateUsers(pickOutcome.from)
       /\ pickOutcome.from.elapsed - pickInput[j].elapsed = ElapsedThreshold
       /\ DomainTotal(pickInput[j].domain) > DomainTotal(pickOutcome.from.domain)
       /\ \E c \in PickInputs : c.domain = pickInput[j].domain /\ FullLayer(c)

\* C28: when an empty islands-based candidate and an empty layer with room
\* are the two candidates that may be selected and their elapsed times
\* differ by at most 1500 ms, the islands-based one is selected:
\* islandsScore(0) = -v + 1 is above the -v of an empty layer.
C28_EmptyIslandsOverEmptyLayer ==
  /\ islandsScore(0) = (1 - v) * ScoreScale
  /\ \A l \in Layers : (l.usersCount = 0 /\ l.maxUsers # <<>> /\ l.maxUsers[1] > 0)
                         => layerScore(l) = (- v) * ScoreScale
  /\ (pickOutcome # NotCalled /\ Cardinality(WithRoom) = 2) =>
       \A i, j \in WithRoom :
         (/\ Abs(pickInput[j].elapsed - pickInput[i].elapsed) <= ElapsedThreshold
          /\ pickInput[i].type = "islands-based" /\ pickInput[i].usersCount = 0
          /\ pickInput[j].type = "layer-based" /\ pickInput[j].layer.usersCount = 0)
           => (Picked /\ pickOutcome.from = pickInput[i])

\* C28's case: the empty islands of the slower domain, which also has the
\* more users in all, won over the empty layer of the faster one.
C28_Witness ==
  /\ Picked
  /\ Cardinality(WithRoom) = 2
  /\ pickOutcome.from.type = "islands-based"
  /\ pickOutcome.from.usersCount = 0
  /\ \E j \in WithRoom :
       /\ pickInput[j].type = "layer-based"
       /\ pickInput[j].layer.usersCount = 0
       /\ pickOutcome.from.elapsed - pickInput[j].elapsed = ElapsedThreshold
       /\ DomainTotal(pickOutcome.from.domain) > DomainTotal(pickInput[j].domain)

\* A candidate that may be selected when a layer without maxUsers is taken
\* to have room for DefaultMaxUsers.
OkWithRoomByDefault(c) ==
  /\ c.status = OK
  /\ \/ c.type = "islands-based"
     \/ /\ c.type = "layer-based"
        /\ c.layer.usersCount < (IF c.layer.maxUsers = <<>> THEN DefaultMaxUsers
                                 ELSE c.layer.maxUsers[1])

\* C29: a layer without maxUsers counts as one with maxUsers = 50 in the
\* score and in the filter of the selection: a candidate of such a layer
\* with fewer than 50 users is scored with maxUsers = 50 and, when it is
\* the only candidate that may be selected, it is selected.
C29_AbsentMaxUsersIsFifty ==
  pickOutcome # NotCalled =>
    \A i \in 1..Len(pickInput) :
      LET c == pickInput[i]
      IN  (c.type = "layer-based" /\ c.layer.maxUsers = <<>> /\ OkWithRoomByDefault(c)) =>
            /\ c.score = layerScore([c.layer EXCEPT !.maxUsers = <<DefaultMaxUsers>>])
            /\ (\A j \in 1..Len(pickInput) : OkWithRoomByDefault(pickInput[j]) => j = i)
                 => (Picked /\ pickOutcome.from = c)

\* C31: for a list of any size, the candidate that pickCatalystRealm selects
\* is a best element of the cascade: no candidate of the list that may be
\* selected is ordered strictly before it by the comparator.
C31_PickedIsBestOfCascade ==
  Picked =>
    \A i \in WithRoom :
      compare(pickInput[i], pickOutcome.from, usersByDomain(pickInput)) >= 0

\* C16: the realm returned carries the catalystName, the domain and the
\* lighthouseVersion of the candidate it was built from, and nothing else
\* but the layer's name when the candidate is layer-based; it has no layer
\* field when the candidate is islands-based.
C16_RealmCarriesCandidateFields ==
  Picked =>
    LET c == pickOutcome.from
        r == pickOutcome.realm
    IN  /\ r.catalystName = c.catalystName
        /\ r.domain = c.domain
        /\ r.lighthouseVersion = c.lighthouseVersion
        /\ c.type = "layer-based" =>
             /\ DOMAIN r = {"catalystName", "domain", "lighthouseVersion", "layer"}
             /\ r.layer = c.layer.name
        /\ c.type = "islands-based" =>
             DOMAIN r = {"catalystName", "domain", "lighthouseVersion"}

\* C16's case: the realm of an islands-based candidate of domain B was
\* returned for an argument that also holds a layer-based candidate that
\* could have been selected.
C16_Witness ==
  /\ Picked
  /\ pickOutcome.from.type = "islands-based"
  /\ pickOutcome.from.domain = "B"
  /\ ~ Has(pickOutcome.realm, "layer")
  /\ \E c \in PickInputs : c.type = "layer-based" /\ OkWithRoom(c)

-----------------------------------------------------------------------------
(* Properties of the scorers, under SpecScore.                             *)

LayerScored == fnOutput # NotCalled /\ fnInput.fn = "layerScore"
IslandsScored == fnOutput # NotCalled /\ fnInput.fn = "islandsScore"
\* maxUsers of the scored layer, 50 when absent.
ScoredMaxUsers ==
  IF fnInput.layer.maxUsers = <<>> THEN DefaultMaxUsers ELSE fnInput.layer.maxUsers[1]

\* C17 as stated: layerScore is -v for every layer with usersCount = 0,
\* whatever maxUsers, and -10 * v for every layer with usersCount >=
\* maxUsers (50 when absent).
C17_LayerScoreEnds ==
  LayerScored =>
    /\ fnInput.layer.usersCount = 0 => fnOutput.value = -v * ScoreScale
    /\ fnInput.layer.usersCount >= ScoredMaxUsers => fnOutput.value = -10 * v * ScoreScale

\* C17 amended: layerScore is -v for every layer with usersCount = 0,
\* whatever maxUsers, and -10 * v for every layer with usersCount > 0 and
\* usersCount >= maxUsers (50 when absent).
C17_LayerScoreEndsEmptyFirst ==
  LayerScored =>
    /\ fnInput.layer.usersCount = 0 => fnOutput.value = -v * ScoreScale
    /\ (fnInput.layer.usersCount > 0 /\ fnInput.layer.usersCount >= ScoredMaxUsers)
         => fnOutput.value = -10 * v * ScoreScale

\* C17's case: a layer with no users and maxUsers 0 was scored -v.
C17_Witness ==
  /\ LayerScored
  /\ fnInput.layer.usersCount = 0
  /\ fnInput.layer.maxUsers = <<0>>
  /\ fnOutput.value = -50 * ScoreScale

\* layerScore of the scored layer with usersCount users instead.
ScoreWith(usersCount) == layerScore([fnInput.layer EXCEPT !.usersCount = usersCount])

\* C30: for every maxUsers and every usersCount in [1, maxUsers - 1],
\* layerScore is above the -10 * v of a full layer, and over that range it
\* is unimodal in usersCount: no score of the range lies below both a score
\* before it and a score after it, so the scores do not decrease up to a
\* peak and do not increase after it.
C30_LayerScoreUnimodal ==
  (LayerScored /\ fnInput.layer.usersCount \in 1..(ScoredMaxUsers - 1)) =>
    /\ fnOutput.value > -10 * v * ScoreScale
    /\ \/ \A a \in 1..fnInput.layer.usersCount : ScoreWith(a) <= fnOutput.value
       \/ \A b \in fnInput.layer.usersCount..(ScoredMaxUsers - 1) : ScoreWith(b) <= fnOutput.value

\* C30's case: the layer scored is at the peak of its range, inside it,
\* with lower scores at both ends.
C30_Witness ==
  /\ LayerScored
  /\ fnInput.layer.maxUsers = <<>>
  /\ fnInput.layer.usersCount \in 2..(ScoredMaxUsers - 2)
  /\ \A a \in 1..(ScoredMaxUsers - 1) : ScoreWith(a) <= fnOutput.value
  /\ ScoreWith(1) < fnOutput.value
  /\ ScoreWith(ScoredMaxUsers - 1) < fnOutput.value
  /\ fnOutput.value > -10 * v * ScoreScale

\* C18: islandsScore(0) = -v + 1 = -49, islandsScore(n) = 100 + n for
\* n >= 1, and islandsScore(n) < islandsScore(n + 1) for every n >= 0.
C18_IslandsScoreIncreasing ==
  IslandsScored =>
    LET n == fnInput.usersCount
    IN  /\ n = 0 => fnOutput.value = -49 * ScoreScale
        /\ n >= 1 => fnOutput.value = (100 + n) * ScoreScale
        /\ fnOutput.value < islandsScore(n + 1)

\* C18's case: the empty catalyst was scored -49, below the 101 of one user.
C18_Witness ==
  /\ IslandsScored
  /\ fnInput.usersCount = 0
  /\ fnOutput.value = -49 * ScoreScale
  /\ islandsScore(1) = 101 * ScoreScale

-----------------------------------------------------------------------------
(* Properties of realm strings, under SpecParse.                           *)

Parsed == fnOutput # NotCalled /\ fnInput.fn = "getRealmFromString"
RoundTripped == fnOutput # NotCalled /\ fnInput.fn = "round trip"
HasDash(str) == \E i \in 1..Len(str) : str[i] = Dash
FirstDash(str) == CHOOSE i \in 1..Len(str) : str[i] = Dash /\ \A j \in 1..(i - 1) : str[j] # Dash

\* C19: for the realm r of any candidate of the list, parsing
\* realmToString(r) against the list gives back a realm equal to r.
C19_RealmStringRoundTrip ==
  RoundTripped =>
    fnOutput.value = <<candidateToRealm(fnInput.candidates[fnInput.index])>>

\* C20: a realm string without '-' is resolved as the islands-based realm of
\* the catalyst it names; a realm string with '-' is resolved as the
\* layer-based realm whose catalyst name is the text before the first '-'
\* and whose layer name is all the text after it.
C20_SplitsAtFirstDash ==
  Parsed =>
    LET str == fnInput.realmString
    IN  IF HasDash(str)
        THEN fnOutput.value =
               realmForLayer(SubSeq(str, 1, FirstDash(str) - 1),
                             SubSeq(str, FirstDash(str) + 1, Len(str)), fnInput.candidates)
        ELSE fnOutput.value = realmFor(str, fnInput.candidates)

-----------------------------------------------------------------------------
(* Properties of the store's subscribers, under SpecStore.                 *)

Notification == notified # <<>>
RealmOf(r) == r[1]

\* C21: at every notification the registered listener is invoked once, with
\* (the realm before, the realm now), when the realm now is present and
\* differs from the realm at the previous notification (or at
\* registration), and is not invoked otherwise; and it is invoked at no
\* other step.
C21_ListenerOncePerChange ==
  [][observed.registered =>
       IF Notification' /\ realm' # <<>> /\ realm' # realm
       THEN notified'.calls = <<[previous |-> realm, current |-> realm']>>
       ELSE Notification' => notified'.calls = <<>>]_vars

\* C21's case: a notification at which the realm had changed from one
\* present realm to another has invoked the listener once.
C21_Witness ==
  /\ Notification
  /\ Len(notified.calls) = 1
  /\ notified.calls[1].previous # <<>>
  /\ notified.calls[1].current = realm
  /\ notified.calls[1].previous # realm

\* C22: with the URL observer initialized, after every store notification
\* at which a realm is present the URL's realm parameter is the realm
\* string of the current realm.
C22_UrlFollowsRealm ==
  (observed.registered /\ Notification /\ realm # <<>>) =>
    url = <<realmToString(RealmOf(realm))>>

WaitingFor(fns) == waits # NotCalled /\ waits.fn \in fns
ConditionOf(fn, state) ==
  IF fn = "candidatesFetched" THEN state.fetched ELSE state.initialized

\* C23: candidatesFetched and realmInitialized are resolved by their call
\* when their condition holds then; otherwise they are pending after every
\* step at which the condition is false, resolved by the first notification
\* at which it holds, and stay resolved.
C23_WaitsUntilConditionObserved ==
  [][WaitingFor({"candidatesFetched", "realmInitialized"})' =>
       /\ waits'.is \in {Pending, Settled("resolved")}
       /\ waits = NotCalled =>
            (waits'.is = Settled("resolved") <=> ConditionOf(waits'.fn, daoState))
       /\ (waits # NotCalled /\ waits.is = Pending) =>
            /\ waits'.is = Pending <=> ~ ConditionOf(waits.fn, daoState')
            /\ waits'.is = Settled("resolved") => Notification'
       /\ (waits # NotCalled /\ waits.is # Pending) => waits'.is = waits.is]_vars

\* C23's case: realmInitialized had to subscribe, and a notification has
\* resolved it.
C23_Witness ==
  /\ WaitingFor({"realmInitialized"})
  /\ waits.subscribed
  /\ waits.is = Settled("resolved")

\* C24: catalystRealmConnected is resolved when the status is, or first
\* becomes, 'connected', rejected with the status when it is, or first
\* becomes, 'error' or 'realm-full', pending otherwise, and once settled it
\* stays as it is.
C24_ConnectedSettlesOnce ==
  [][WaitingFor({"catalystRealmConnected"})' =>
       /\ (waits = NotCalled \/ waits.is = Pending) =>
            /\ daoState'.commsStatus = "connected" => waits'.is = Settled("resolved")
            /\ daoState'.commsStatus \in {"error", "realm-full"} =>
                 waits'.is = RejectedWith(daoState'.commsStatus)
            /\ daoState'.commsStatus = "connecting" => waits'.is = Pending
       /\ (waits # NotCalled /\ waits.is # Pending) => waits'.is = waits.is]_vars

\* C24's case: the call had to subscribe and was rejected with 'realm-full'.
C24_Witness ==
  /\ WaitingFor({"catalystRealmConnected"})
  /\ waits.subscribed
  /\ waits.is = RejectedWith("realm-full")

\* C33: a waiting primitive that finds its condition at the call makes no
\* subscription; otherwise its subscription is removed by one call of
\* unsubscribe, at the notification that settles it, and after that its
\* subscriber does not run at any notification and the wait stays as it
\* settled.
C33_UnsubscribesWhenSettled ==
  [][WaitingFor(Waiters)' =>
       /\ waits = NotCalled =>
            /\ waits'.subscription = (IF waits'.is = Pending THEN "active" ELSE "none")
            /\ waits'.unsubscribes = 0
       /\ (waits # NotCalled /\ waits.is = Pending /\ Notification') =>
            /\ waits'.ran
            /\ waits'.is = Pending => (waits'.subscription = "active" /\ waits'.unsubscribes = 0)
            /\ waits'.is # Pending => (waits'.subscription = "removed" /\ waits'.unsubscribes = 1)
       /\ (waits # NotCalled /\ waits.is # Pending) =>
            /\ Notification' => ~ waits'.ran
            /\ waits'.is = waits.is
            /\ waits'.subscription = waits.subscription
            /\ waits'.unsubscribes = waits.unsubscribes]_vars

\* C33's case: catalystRealmConnected had subscribed, a notification settled
\* it and removed the subscription, and a later notification has not run
\* its subscriber although the status had changed again.
C33_Witness ==
  /\ WaitingFor({"catalystRealmConnected"})
  /\ waits.is = Settled("resolved")
  /\ waits.subscription = "removed"
  /\ waits.unsubscribes = 1
  /\ Notification
  /\ ~ waits.ran
  /\ daoState.commsStatus = "error"

-----------------------------------------------------------------------------
(* Properties of the program, under Spec.                                  *)

\* C2: the realm published as current is the realm of a candidate that, in
\* the candidate list the publishing operation selected from, had status OK
\* and was not a full layer.
C2_PublishedRealmHadRoom ==
  realm # <<>> => \E c \in publishedFrom : OkWithRoom(c)

Queried(source) == Has(queried, source)
SourceGaveNoNodes ==
  \E source \in DOMAIN queried : queried[source].ok /\ queried[source].nodes = <<>>

\* C7: when node discovery yields zero nodes, fetchCatalystRealms fails
\* with the "no nodes" error with no health or status probe issued, its
\* caller gets that error, and pickCatalystRealm is not called.
C7_NoNodesFailsBeforeProbing ==
  SourceGaveNoNodes =>
    /\ pc = "roundFailed"
    /\ roundResult = [kind |-> "error", error |-> NoNodesError]
    /\ probes = {}
    /\ pickOutcome = NotCalled
    /\ realm = <<>>

\* C7's case: the registry, asked after the endpoint failed, gave no node
\* and the round has failed.
C7_Witness ==
  /\ pc = "roundFailed"
  /\ Queried("dao") /\ queried.dao.ok /\ queried.dao.nodes = <<>>
  /\ roundResult.error = NoNodesError

EndpointFailed == Queried("endpoint") /\ ~ queried.endpoint.ok

\* C8: once the configured endpoint has thrown or answered not OK, the
\* registry is asked and its node list is the round's node list; the
\* endpoint's error never reaches the caller, and the round fails with the
\* "no nodes" error only if the registry gave no node.
C8_EndpointFailureFallsBack ==
  EndpointFailed =>
    /\ nodesEndpoint # <<>>
    /\ pc = "dao" \/ Queried("dao")
    /\ (Queried("dao") /\ queried.dao.ok) => nodes = queried.dao.nodes
    /\ roundResult.kind = "error" =>
         /\ Queried("dao")
         /\ roundResult.error # EndpointError
         /\ roundResult.error = NoNodesError
              <=> (queried.dao.ok /\ queried.dao.nodes = <<>>)
         /\ roundResult.error = DaoError <=> ~ queried.dao.ok

\* C8's case: the endpoint failed, the registry gave nodes and the round
\* went on to return candidates.
C8_Witness ==
  /\ EndpointFailed
  /\ Queried("dao") /\ queried.dao.ok /\ Len(queried.dao.nodes) = 2
  /\ pc = "fetched"
  /\ roundResult.kind = "candidates"

\* C9: with PIN_CATALYST set, the round's node list is exactly the pinned
\* node, every probe goes to it, and neither the endpoint nor the registry
\* is queried.
C9_PinnedBypassesDiscovery ==
  (pinCatalyst # <<>> /\ pc # "idle") =>
    /\ queried = EmptyMap
    /\ pc \notin {"endpoint", "dao"}
    /\ pc = "roundFailed" => roundResult.error \notin {NoNodesError, DaoError, EndpointError}
    /\ pc \in {"health", "ping", "fetched"} => nodes = pinCatalyst
    /\ \A probe \in probes : probe[2] = pinCatalyst[1]

\* C9's case: a round with PIN_CATALYST set and an endpoint given has
\* returned candidates.
C9_Witness ==
  /\ pinCatalyst # <<>>
  /\ nodesEndpoint # <<>>
  /\ pc = "fetched"
  /\ roundResult.candidates # <<>>

AllHealthy(peerStatus) ==
  /\ DOMAIN peerStatus # {}
  /\ \A server \in DOMAIN peerStatus : peerStatus[server] = HEALTHY

\* C10: the nodes kept as healthy are exactly those whose health map has
\* at least one entry and only HEALTHY entries.
C10_HealthyIffAllHealthy ==
  pc \in {"ping", "fetched"} =>
    \A d \in Range(nodes) : d \in Range(healthyNodes) <=> AllHealthy(health[d])

\* C10's case: of two nodes, one with two HEALTHY entries was kept and one
\* with a HEALTHY and a non-HEALTHY entry was dropped.
C10_Witness ==
  /\ pc = "ping"
  /\ \E d \in Range(healthyNodes) : Cardinality(DOMAIN health[d]) = 2
  /\ \E d \in Range(nodes) \ Range(healthyNodes) :
       /\ \E server \in DOMAIN health[d] : health[d][server] = HEALTHY
       /\ \E server \in DOMAIN health[d] : health[d][server] # HEALTHY

HealthWire(d) == wire[<<"health", d>>]
StatusWire(d) == wire[<<"status", d>>]
HealthProbed == {probe[2] : probe \in {q \in DOMAIN wire : q[1] = "health"}}
StatusProbed == {probe[2] : probe \in {q \in DOMAIN wire : q[1] = "status"}}
PingsIssued == pc \in {"ping", "fetched"}

\* C11: a health probe whose request timed out (was aborted) or failed in
\* transport has completed with the empty status map, the round has not
\* failed with the request's error, and the node is not among the healthy
\* nodes and gets no status ping.
C11_HealthProbeNeverThrows ==
  \A d \in HealthProbed :
    HealthWire(d).kind \in {"timeout", "transport error"} =>
      /\ Has(health, d)
      /\ health[d] = EmptyMap
      /\ roundResult.kind = "error" => roundResult.error # HealthWire(d).kind
      /\ <<"status", d>> \notin probes
      /\ PingsIssued => d \notin Range(healthyNodes)

\* C11's case: of two nodes, the health request of one timed out, that of
\* the other failed in transport, and the round went on to its (empty)
\* ping stage.
C11_Witness ==
  /\ pc = "ping"
  /\ \E d \in HealthProbed : HealthWire(d).kind = "timeout"
  /\ \E d \in HealthProbed : HealthWire(d).kind = "transport error"
  /\ healthyNodes = <<>>

\* How ping classifies what became of its request.
Classified(answer, result, elapsed) ==
  /\ (answer.kind = "send throws" \/ answer.status # 200) => result = [status |-> UNREACHABLE]
  /\ (answer.kind = "done" /\ answer.status = 200 /\ answer.body.parses) =>
       result = [status |-> OK, elapsed |-> elapsed, result |-> answer.body.value]
  /\ (answer.kind = "done" /\ answer.status = 200 /\ ~ answer.body.parses) =>
       result = EmptyMap

\* C12: every step leaves each settled status ping with a value (never the
\* round failed by the ping's error): UNREACHABLE for a send that threw or
\* a status other than 200, OK with the elapsed time and the parsed payload
\* for a 200 that parses, the empty result for a 200 that does not parse;
\* and a ping that has settled keeps its value for the rest of the round
\* (it settles once, no second request is made).
C12_PingAlwaysSettlesWithValue ==
  [][/\ \A d \in StatusProbed' :
          /\ Has(pings', d)
          /\ Classified(StatusWire(d)', pings'[d], Elapsed[d])
     /\ \A d \in StatusProbed \cap StatusProbed' :
          /\ pings'[d] = pings[d]
          /\ StatusWire(d)' = StatusWire(d)]_vars

\* C12's case: of two pings, one got a 200 whose body does not parse and
\* settled with the empty result, the other got a 503 and settled with
\* UNREACHABLE.
C12_Witness ==
  /\ \E d \in StatusProbed :
       /\ StatusWire(d).kind = "done" /\ StatusWire(d).status = 200
       /\ ~ StatusWire(d).body.parses
       /\ pings[d] = EmptyMap
  /\ \E d \in StatusProbed :
       /\ StatusWire(d).kind = "done" /\ StatusWire(d).status = 503
       /\ pings[d] = [status |-> UNREACHABLE]

PingOk(d) == Has(pings, d) /\ Has(pings[d], "status") /\ pings[d].status = OK
DeclaresLayers(d) == Has(pings[d].result, "layers")
CandidatesFrom(cands, d) == SelectSeq(cands, LAMBDA c : c.domain = d)

\* C13: a round over a non-empty node list does not fail, and the
\* candidates it returns come from exactly the nodes that were healthy and
\* answered their ping with OK (those that declared no layer at all aside).
C13_PerNodeFailuresAbsorbed ==
  /\ nodes # <<>> => pc # "roundFailed"
  /\ pc = "fetched" =>
       /\ roundResult.kind = "candidates"
       /\ \A d \in Range(nodes) :
            LET good == AllHealthy(health[d]) /\ PingOk(d)
            IN  /\ CandidatesFrom(roundResult.candidates, d) # <<>> => good
                /\ (good /\ ~ (DeclaresLayers(d) /\ pings[d].result.layers = <<>>))
                     => CandidatesFrom(roundResult.candidates, d) # <<>>

StatusIssued == {probe[2] : probe \in {q \in probes : q[1] = "status"}}
\* What the answers of the network alone determine, whatever their order.
HealthOfAnswers == [d \in HealthProbed |-> fetchPeerHealthStatus(HealthWire(d)).value]
PingsOfAnswers == [d \in StatusProbed |-> ping(StatusWire(d), Elapsed[d]).value]

\* C14: a status ping is issued only once every health probe of the round
\* has settled, and only to a node classified healthy; the candidate list
\* exists only once every status ping issued has settled, and it is the one
\* that the nodes' answers determine, in node order, however the
\* completions were interleaved.
C14_ScatterGatherNoShortCircuit ==
  /\ \A d \in StatusIssued :
       /\ HealthProbed = Range(nodes)
       /\ AllHealthy(health[d])
  /\ roundResult.kind = "candidates" =>
       /\ StatusProbed = StatusIssued
       /\ StatusIssued = {d \in Range(nodes) : AllHealthy(health[d])}
       /\ roundResult.candidates =
            fetchCatalystStatuses(HealthyOnly(nodes, HealthOfAnswers), PingsOfAnswers)

\* C14's case: a round over the nodes B, A, both healthy and both answering
\* OK, has returned candidates of both, those of B first.
C14_Witness ==
  /\ pc = "fetched"
  /\ nodes = <<"B", "A">>
  /\ StatusProbed = {"A", "B"}
  /\ Len(roundResult.candidates) >= 2
  /\ roundResult.candidates[1].domain = "B"
  /\ roundResult.candidates[Len(roundResult.candidates)].domain = "A"

\* The reduce of fetchCatalystStatuses has run over the settled pings.
GatherDone ==
  /\ pc \in {"fetched", "roundFailed"}
  /\ healthyNodes # <<>>
  /\ DOMAIN pings = Range(healthyNodes)

\* The candidates of each pinged node, as C15 has them.
BuiltNodeByNode(cands) ==
  \A d \in Range(healthyNodes) :
    LET mine == CandidatesFrom(cands, d)
    IN  /\ (PingOk(d) /\ DeclaresLayers(d)) =>
             /\ Len(mine) = Len(pings[d].result.layers)
             /\ \A i \in 1..Len(mine) :
                  /\ mine[i].type = "layer-based"
                  /\ mine[i].layer = pings[d].result.layers[i]
        /\ (PingOk(d) /\ ~ DeclaresLayers(d)) =>
             /\ Len(mine) = 1
             /\ mine[1].type = "islands-based"
             /\ mine[1].usersCount = pings[d].result.usersCount
        /\ ~ PingOk(d) => mine = <<>>

\* C15: once the pings have settled fetchCatalystStatuses returns a list
\* holding, for each node, one layer-based candidate per declared layer when
\* its ping is OK with layers, one islands-based candidate with the
\* payload's user count when its ping is OK without layers, and nothing
\* when its ping is UNREACHABLE or empty.
C15_CandidatesNodeByNode ==
  GatherDone =>
    /\ roundResult.kind = "candidates"
    /\ BuiltNodeByNode(roundResult.candidates)

-----------------------------------------------------------------------------
(* Termination of the discovery round, over SpecRound.                     *)

RoundProbing == pc \in {"health", "ping"}
RoundCompleted == pc \in {"fetched", "roundFailed"}

\* C34: with every probe answering or reaching its timeout, a discovery
\* round that has its node list completes in the end, with candidates or
\* with an error, also when nodes never answer.
C34_RoundCompletes == RoundProbing ~> RoundCompleted

\* C34's case: a round over two nodes has completed with candidates, one of
\* the nodes never having answered its health request, the other never its
\* status request.
C34_Witness ==
  /\ pc = "fetched"
  /\ Len(nodes) = 2
  /\ \E d \in Range(nodes) :
       /\ Has(wire, <<"health", d>>) /\ wire[<<"health", d>>].kind = "timeout"
  /\ \E d \in Range(nodes) :
       /\ Has(wire, <<"status", d>>)
       /\ wire[<<"status", d>>] = [kind |-> "done", status |-> 0]
       /\ <<"status", d>> \in silent

-----------------------------------------------------------------------------
(* Properties of changeToCrowdedRealm, over Spec.                          *)

\* The realm with the most people close to the player among the refreshed
\* candidates, the current realm standing for itself with none.
MostCrowded(fresh, currentRealm) == crowdedRealmFrom(fresh, currentRealm).realm

\* C25: with the refreshed candidates in hand, changeToCrowdedRealm migrates
\* exactly when the realm with the maximum count of nearby peers differs from
\* the current realm: it then publishes that realm and reports
\* (true, newRealm); otherwise it publishes nothing and reports
\* (false, currentRealm).
C25_CrowdedMigratesAndReports ==
  [][/\ (crowded.kind = "probing" /\ crowded'.kind \in {"connecting", "returned"}) =>
          LET currentRealm == realm[1]
              most == MostCrowded(candidates', currentRealm)
          IN  IF most # currentRealm
              THEN realm' = <<most>> /\ crowded' = Connecting(most, currentRealm)
              ELSE realm' = realm /\ crowded' = Returned(<<FALSE, currentRealm>>)
     /\ (crowded.kind = "connecting" /\ crowded' # crowded) =>
          crowded' = Returned(<<TRUE, crowded.realm>>)]_vars

-----------------------------------------------------------------------------
(* Properties of refreshCandidatesStatuses, over SpecRefresh.              *)

\* The complete output of a call, from the results of all its pings.
OutputOf(round) == fetchCatalystStatuses(round.domains, round.results)

\* C26: the published candidate list is replaced only as a whole, by the
\* publication of one completed round: at every moment, with probes in
\* flight and with rounds that overlap, it is the complete output of one
\* round, the one before the refreshes or one of them.
C26_CandidatesAreOneRoundsOutput ==
  /\ [](\/ candidates = PublishedAtStart
        \/ \E id \in RefreshIds :
             refreshes[id].kind = "published" /\ candidates = OutputOf(refreshes[id]))
  /\ [][candidates' # candidates =>
          \E id \in RefreshIds :
            /\ refreshes[id].kind = "probing"
            /\ DOMAIN refreshes[id].results = Range(refreshes[id].domains)
            /\ refreshes' = [refreshes EXCEPT ![id].kind = "published"]
            /\ candidates' = OutputOf(refreshes[id])]_vars

\* C26's case: a call has published while the other, started before that
\* publication, still has pings in flight and has got a different result
\* for a domain.
C26_Witness ==
  \E id, other \in RefreshIds :
    /\ refreshes[id].kind = "published"
    /\ candidates = OutputOf(refreshes[id])
    /\ candidates # PublishedAtStart
    /\ refreshes[other].kind = "probing"
    /\ refreshes[other].domains # getCandidateDomains(candidates)
    /\ \E d \in DOMAIN refreshes[other].results :
         /\ refreshes[other].results[d] # refreshes[id].results[d]
         /\ DOMAIN refreshes[other].results # Range(refreshes[other].domains)

-----------------------------------------------------------------------------
(* Properties of the candidate lists, over Spec.                           *)

\* The candidate lists at hand: the one the round returned and the one in
\* the store.
CandidateLists ==
  {candidates} \cup (IF roundResult.kind = "candidates" THEN {roundResult.candidates} ELSE {})
AllCandidates == UNION {Range(list) : list \in CandidateLists}

\* The score that the scorers give to the candidate's own state.
OwnScore(c) ==
  IF c.type = "layer-based" THEN layerScore(c.layer) ELSE islandsScore(c.usersCount)

SameShape(c1, c2) ==
  /\ c1.type = c2.type
  /\ candidateUsers(c1) = candidateUsers(c2)
  /\ c1.type = "layer-based" => c1.layer.maxUsers = c2.layer.maxUsers

\* C32: every candidate of a list returned by fetchCatalystStatuses, and so
\* of the published list, has status OK and the score that layerScore
\* gives its own layer or islandsScore its own usersCount; two candidates
\* of the same shape with the same users and capacity have the same score.
C32_ScoresAreOfOwnState ==
  /\ \A c \in AllCandidates : c.status = OK /\ c.score = OwnScore(c)
  /\ \A c1, c2 \in AllCandidates : SameShape(c1, c2) => c1.score = c2.score

\* C32's case: the published list, refreshed by changeToCrowdedRealm, has a
\* layer with a user and room, a full layer and islands, from two catalysts.
C32_Witness ==
  /\ crowded.kind \in {"connecting", "returned"}
  /\ \E c1, c2, c3 \in Range(candidates) :
       /\ c1.type = "layer-based" /\ c1.layer.usersCount = 1 /\ OkWithRoom(c1)
       /\ c2.type = "layer-based" /\ FullLayer(c2)
       /\ c3.type = "islands-based" /\ c3.domain # c1.domain
       /\ c1.score > c2.score

-----------------------------------------------------------------------------
(* Properties of the realm changeToCrowdedRealm publishes, over Spec.      *)

\* A layer that reports the position of a user and has room.
LayerWithPeopleAndRoom(c) ==
  /\ c.type = "layer-based"
  /\ Has(c.layer, "usersParcels") /\ c.layer.usersParcels # <<>>
  /\ c.layer.maxUsers # <<>> /\ c.layer.usersCount < c.layer.maxUsers[1]

\* changeToCrowdedRealm publishes: the step from its pings to its wait for
\* the connection.
CrowdedPublishes == crowded.kind = "probing" /\ crowded'.kind = "connecting"

\* C35: a realm published by changeToCrowdedRealm is the realm of a
\* layer-based candidate of the freshly probed list that reports at least
\* one user position and has usersCount < maxUsers, and of no islands-based
\* candidate, layer without positions or full layer.
C35_CrowdedPublishesEligible ==
  [][CrowdedPublishes =>
       /\ \E c \in Range(candidates') :
            LayerWithPeopleAndRoom(c) /\ candidateToRealm(c) = realm'[1]
       /\ \A c \in Range(candidates') :
            candidateToRealm(c) = realm'[1] => LayerWithPeopleAndRoom(c)]_vars

\* C35's case: changeToCrowdedRealm has published a realm while the fresh
\* list holds a full layer with more people close to the player than the
\* layer of the published realm.
C35_Witness ==
  /\ crowded.kind = "connecting"
  /\ realm = <<crowded.realm>>
  /\ \E c, full \in Range(candidates) :
       /\ candidateToRealm(c) = crowded.realm
       /\ full.type = "layer-based" /\ FullLayer(full)
       /\ Has(full.layer, "usersParcels")
       /\ countParcelsCloseTo(PlayerParcel, full.layer.usersParcels, CloseDistance)
            > countParcelsCloseTo(PlayerParcel, c.layer.usersParcels, CloseDistance)

\* The people close to the player in a layer of the fresh list, the player
\* left out when the layer is the one of the current realm.
NearbyPeers(c, currentRealm) ==
  countParcelsCloseTo(PlayerParcel, c.layer.usersParcels, CloseDistance)
    - (IF candidateToRealm(c) = currentRealm THEN 1 ELSE 0)

\* The eligible candidates of a list.
Eligible(fresh) == {c \in Range(fresh) : LayerWithPeopleAndRoom(c)}

\* changeToCrowdedRealm has the fresh list and decides.
CrowdedDecides == crowded.kind = "probing" /\ crowded'.kind \in {"connecting", "returned"}

\* C36: changeToCrowdedRealm migrates only to a realm with strictly more
\* people close to the player than the current realm has, the player left
\* out: with the current realm among the eligible candidates of the fresh
\* list and at least as crowded as every other one, it publishes nothing
\* and returns (false, currentRealm), whatever the order of the list.
C36_CrowdedNeverMigratesOnTie ==
  [][CrowdedDecides =>
       \A current \in Eligible(candidates') :
         (/\ candidateToRealm(current) = realm[1]
          /\ \A c \in Eligible(candidates') :
               NearbyPeers(current, realm[1]) >= NearbyPeers(c, realm[1]))
         => /\ crowded' = Returned(<<FALSE, realm[1]>>)
            /\ realm' = realm]_vars

\* The call ends without success: it returns (false, currentRealm), or the
\* connection to the new realm ends in 'error' or 'realm-full'.
CrowdedEndsWithoutSuccess ==
  \/ crowded.kind = "probing" /\ crowded'.kind = "returned" /\ ~ crowded'.value[1]
  \/ /\ crowded.kind = "connecting" /\ crowded'.kind = "thrown"
     /\ crowded'.error \in {"error", "realm-full"}

\* The realm that was published when the call read it.
RealmBeforeCall ==
  IF crowded.kind = "connecting" THEN <<crowded.currentRealm>> ELSE realm

\* C37: changeToCrowdedRealm changes the published realm only in calls that
\* report success: when a call returns (false, currentRealm), or fails on a
\* connection that ended in 'error' or 'realm-full', the published realm
\* after the call is the one published before it.
C37_RealmKeptWithoutSuccess ==
  [][CrowdedEndsWithoutSuccess => realm' = RealmBeforeCall]_vars

-----------------------------------------------------------------------------
(* Properties of the domains refreshCandidatesStatuses probes, over        *)
(* SpecRefresh.                                                            *)

DomainsOf(list) == {list[i].domain : i \in 1..Len(list)}
NoDomainTwice(domains) ==
  \A i, j \in 1..Len(domains) : domains[i] = domains[j] => i = j

\* A call is made: the step that takes it from not called to probing.
RefreshCalled(id) == refreshes[id] = NotCalled /\ refreshes'[id].kind = "probing"

\* The call probes the distinct domains of the list published at the call,
\* each once.
ProbesThePublished(id) ==
  /\ Range(refreshes'[id].domains) = DomainsOf(candidates)
  /\ NoDomainTwice(refreshes'[id].domains)

\* C38: refreshCandidatesStatuses probes exactly the distinct domains of
\* the candidate list published at the time of the call, each once; and a
\* domain that yielded no candidate in a refresh that has finished is not
\* probed by a refresh called after it.
C38_ProbedDomainsNeverGrow ==
  [][\A id \in RefreshIds : RefreshCalled(id) =>
       /\ ProbesThePublished(id)
       /\ \A done \in RefreshIds :
            refreshes[done].kind = "published" =>
              Range(refreshes'[id].domains) \subseteq DomainsOf(OutputOf(refreshes[done]))]_vars

\* The calls made so far, and the one made last.
Called == {id \in RefreshIds : refreshes[id] # NotCalled}
MadeLast(id) == id \in Called /\ Called \ {id} = CalledBefore(id)

\* C39: once the refresh rounds that were started have all finished and
\* published, two of them at least, the published candidate list is the
\* output of the round that started last, also when a round that started
\* earlier finished later.
C39_LastStartedRoundWins ==
  (/\ Cardinality(Called) >= 2
   /\ \A id \in Called : refreshes[id].kind = "published")
  => \A id \in RefreshIds : MadeLast(id) => candidates = OutputOf(refreshes[id])

-----------------------------------------------------------------------------
(* Properties of changeRealm, over SpecChange.                             *)

\* The candidates of the published list that a realm string names: those
\* whose realm is written as that string.
Matching(realmString) ==
  {c \in Range(candidates) : realmToString(candidateToRealm(c)) = realmString}

ChangeRealmCalled ==
  fnInput.fn = "changeRealm" /\ fnOutput = NotCalled /\ fnOutput' # NotCalled

\* C40: changeRealm with a realm string that matches no candidate of the
\* published list returns no realm and leaves the published realm and the
\* candidate list as they were; with a matching string it publishes exactly
\* the realm of a matched candidate and returns it.
C40_ChangeRealmPublishesTheMatch ==
  [][ChangeRealmCalled =>
       IF Matching(fnInput.realmString) = {}
       THEN /\ fnOutput' = Returned(<<>>)
            /\ realm' = realm
            /\ candidates' = candidates
       ELSE /\ candidates' = candidates
            /\ \E c \in Matching(fnInput.realmString) :
                 /\ realm' = <<candidateToRealm(c)>>
                 /\ fnOutput' = Returned(<<candidateToRealm(c)>>)]_vars

=============================================================================
